---- MODULE Spec2Model ----
(***************************************************************************)
(* Model of ingress-intel-rs: Intel::get_entities_in_range (src/src/lib.rs) *)
(* and the TileKey value type (src/src/tile_key.rs).                        *)
(*                                                                          *)
(* The fetch loop of get_entities_in_range is                               *)
(*     iter(repeat(())).throttle(pool)                                      *)
(*         .take_while(|_| get_counts())                                    *)
(*         .for_each_concurrent(None, |_| get_tiles())                      *)
(* All futures run inside one task.  A future holds the tiles mutex only    *)
(* between two await points, so each critical section is one atomic step:   *)
(*   Tick     the throttle admits an item and get_counts() is evaluated     *)
(*   Select   first half of get_tiles(): scan, mark Busy, build the body    *)
(*   Resolve  second half of get_tiles(): the answer of inner_call is       *)
(*            written back                                                  *)
(*   Collect  the stream is finished and no future is left: into_inner()    *)
(***************************************************************************)
EXTENDS Integers, Sequences, FiniteSets, Bags, TLC

(* ------------------------------- bounds -------------------------------- *)
\* tile coordinates the corners of the rectangle are drawn from
MaxX == 1
MaxY == 1
\* largest tile set that is explored
MaxTiles == 4
\* .take(25) of lib.rs:517, scaled down so that several batches are needed
BatchCeiling == 2
\* futures of for_each_concurrent alive at the same time
MaxTasks == 2
\* failures (endpoint errors, transport failures) the environment may produce
MaxFail == 2
\* entries for keys that were not in the request, over a whole run
MaxStray == 1

Xs == 0 .. MaxX
Ys == 0 .. MaxY
\* entities::IntelEntities values: the loop never looks inside a payload, two
\* distinct ones are enough to tell a payload from another
Payloads == {1, 2}
\* rate_limit arguments: a valid one, a zero count, a zero duration
RateLimits == { <<1, 1>>, <<0, 1>>, <<1, 0>> }

\* a key the caller never asked for (outside every rectangle over Xs \X Ys)
ForeignKey == <<MaxX + 1, 0>>

(* ----------------------------- TileKey::range -------------------------- *)
Min2(a, b) == IF a <= b THEN a ELSE b
Max2(a, b) == IF a >= b THEN a ELSE b

\* TileKey::range on already projected corners; the keys of one call share
\* zoom, min_level, max_level and health, so a key is its (x, y) here
Range(x1, y1, x2, y2) ==
    LET from_x == Min2(x1, x2)
        from_y == Min2(y1, y2)
        to_x == Max2(x1, x2)
        to_y == Max2(y1, y2)
    IN  { <<x, y>> : x \in from_x .. to_x, y \in from_y .. to_y }

get_tile_keys_in_range(from, to) == Range(from[1], from[2], to[1], to[2])

(* ------------------------------ TileState ------------------------------ *)
Free == [st |-> "Free", val |-> 0]
Busy == [st |-> "Busy", val |-> 0]
Done(p) == [st |-> "Done", val |-> p]

is_free(s) == s.st = "Free"
is_busy(s) == s.st = "Busy"
is_done(s) == s.st = "Done"

(* ------------------------------- errors -------------------------------- *)
\* the Error values login() can return
LoginErrors == { "Transport", "Status", "MissingFacebookUsername",
                 "MissingFacebookPassword", "FacebookUrl", "LoginFailed",
                 "CsrfToken", "IntelApiVersion" }

VARIABLES
    pc,           \* position of get_entities_in_range
    tile_keys,    \* the local tile_keys of lib.rs:478 (empty before that line)
    rate_limit,   \* argument rate_limit: <<count, duration>>
    api_version,  \* Intel.api_version (OnceCell): TRUE when set
    csrftoken,    \* Intel.csrftoken (OnceCell): TRUE when set
    tiles,        \* the HashMap behind the tiles mutex: key -> TileState
    tasks,        \* the futures held by for_each_concurrent, as a bag
    result,       \* what get_entities_in_range returned
    served,       \* history: key -> last payload the endpoint answered for it
    fails,        \* history: key -> failures the endpoint produced for it
    selects,      \* history: key -> number of Free -> Busy transitions
    frees,        \* history: key -> number of Busy -> Free transitions
    calls,        \* history: number of batch calls sent
    strays,       \* history: answered entries whose key was not in the request
    ev,           \* history: the last step taken
    tk,           \* a TileKey on its way through Display and FromStr
    geo,          \* the arguments and results of TileKey::new, range and square
    cookie_store, \* Intel.cookie_store: the names of the cookies it holds
    username,     \* Intel.username is Some
    password,     \* Intel.password is Some
    logins,       \* the calls of Intel::login: caller -> where it is
    fn,           \* the function of Intel that was called
    tiles_lock,   \* the tiles mutex: "none", or the step that holds it
    ticks,        \* history: items the throttle has admitted
    cookie_lock   \* the RwLock of the cookie store: the guards that are alive

call_vars == << pc, tile_keys, rate_limit, api_version, csrftoken, tiles,
               tasks, result, served, fails, selects, frees, calls, strays, ev >>

\* what Intel::login reads and writes besides the two cells
login_vars == << cookie_store, username, password, logins >>

\* the tiles mutex and the count of admitted ticks: written only where the
\* loop is followed lock by lock
step_vars == << tiles_lock, ticks, cookie_lock >>

\* what the steps of get_entities_in_range leave alone
aux_vars == << tk, geo, login_vars, step_vars, fn >>

\* what Intel::login leaves alone
loop_vars == << pc, tile_keys, rate_limit, tiles, tasks, result, served, fails,
               selects, frees, calls, strays, ev >>

vars == << call_vars, tk, geo, login_vars, step_vars, fn >>

\* a get_tiles() future: pushed and not yet past its first lock().await, or
\* awaiting inner_call(body) for the keys ids
Started == [st |-> "start", ids |-> {}]
Waiting(ids) == [st |-> "wait", ids |-> ids]

NoKey == [step |-> "none"]
NoGeo == [step |-> "none"]

\* the tasks that call login() on the same Intel
Callers == { 1, 2 }
\* a caller: where its call of login() is, what the call returned, the
\* requests the call has sent, the calls the caller has made, and what the
\* call's cookie_exists() lookups have found
Caller(at, res, sent, n) ==
    [pc |-> at, res |-> res, sent |-> sent, n |-> n, found |-> {}]
\* nobody is logging in, the cookie store is empty, no credentials
NoLogin ==
    /\ cookie_store = {}
    /\ username = FALSE
    /\ password = FALSE
    /\ logins = [c \in Callers |-> Caller("idle", "none", {}, 0)]
NoResult == [kind |-> "none", val |-> << >>]
NoEvent == [op |-> "none", ids |-> {}, resp |-> << >>]

TileSet == tile_keys
KeyUniverse == TileSet \cup {ForeignKey}

RECURSIVE SumOver(_, _)
SumOver(f, S) ==
    IF S = {} THEN 0
    ELSE LET k == CHOOSE k \in S : TRUE IN f[k] + SumOver(f, S \ {k})

(* --------------------------------- Init -------------------------------- *)
\* no guard of the cookie store is alive; r counts the read guards, w says
\* whether the write guard is alive
NoGuard == [r |-> 0, w |-> FALSE]

InitCall ==
    /\ pc = "login"
    /\ tile_keys = {}
    /\ rate_limit \in RateLimits
    \* an Intel is built with both cells empty; an earlier login() may have
    \* filled csrftoken alone (it failed afterwards) or both
    /\ csrftoken \in BOOLEAN
    /\ api_version \in BOOLEAN
    /\ api_version => csrftoken
    /\ tiles = << >>
    /\ tasks = EmptyBag
    /\ result = NoResult
    /\ served = << >>
    /\ fails = << >>
    /\ selects = << >>
    /\ frees = << >>
    /\ calls = 0
    /\ strays = 0
    /\ ev = NoEvent
    /\ tiles_lock = "none"
    /\ ticks = 0
    /\ cookie_lock = NoGuard

InRange == fn = "get_entities_in_range"

Init == InitCall /\ InRange /\ tk = NoKey /\ geo = NoGeo /\ NoLogin

(* ------------------------------- helpers ------------------------------- *)
FreeKeys(m) == { k \in DOMAIN m : is_free(m[k]) }
BusyKeys(m) == { k \in DOMAIN m : is_busy(m[k]) }

\* the Vec built at lib.rs:563, as the multiset of its payloads
\* (into_values() yields them in the HashMap's arbitrary order)
Values(m) == [p \in Payloads |-> Cardinality({ k \in DOMAIN m : m[k] = Done(p) })]

Ok(v) == [kind |-> "Ok", val |-> v]
Err(e) == [kind |-> "Err", val |-> e]

One(b) == SetToBag({b})

\* the batches awaiting their answer
Outstanding == { b \in BagToSet(tasks) : b.st = "wait" }

\* entities::IntelResult
Entities(p) == [ok |-> TRUE, val |-> p]
Error == [ok |-> FALSE, val |-> 0]
IntelResult == {Error} \cup { Entities(p) : p \in Payloads }

\* what the endpoint may answer to a request for ids: a map from keys to
\* IntelResult (entities::IntelMap).  Keys of the request may be left out;
\* at most one key of extra that was not asked for is added.
Asked(ids) == UNION { [D -> IntelResult] : D \in SUBSET ids }
Responses(ids, extra) ==
    Asked(ids) \cup
    { r @@ (k :> v) : r \in Asked(ids), k \in extra \ ids, v \in IntelResult }

Bump(f, S) == [k \in DOMAIN f |-> IF k \in S THEN f[k] + 1 ELSE f[k]]

(* -------------------------------- login -------------------------------- *)
\* Intel::login as called at lib.rs:467, as one step
LoginOk ==
    /\ pc = "login"
    /\ \/ api_version /\ UNCHANGED <<api_version, csrftoken>>
       \/ ~api_version /\ ~csrftoken /\ api_version' = TRUE /\ csrftoken' = TRUE
    /\ pc' = "setup"
    /\ UNCHANGED aux_vars
    /\ ev' = NoEvent
    /\ UNCHANGED <<tile_keys, rate_limit, tiles, tasks, result, served, fails,
                   selects, frees, calls, strays>>

LoginErr ==
    /\ pc = "login"
    /\ ~api_version
    /\ \E e \in LoginErrors :
          /\ \/ /\ e # "IntelApiVersion"
                /\ UNCHANGED csrftoken
             \* csrftoken.set() went through and the page had no API version
             \/ /\ e = "IntelApiVersion"
                /\ ~csrftoken
                /\ csrftoken' = TRUE
          \* a second csrftoken.set() is the only way past line 384 otherwise
          /\ csrftoken => e \in LoginErrors \ {"IntelApiVersion"}
          /\ result' = Err(e)
    /\ pc' = "returned"
    /\ UNCHANGED aux_vars
    /\ ev' = NoEvent
    /\ UNCHANGED <<tile_keys, rate_limit, api_version, tiles, tasks, served,
                   fails, selects, frees, calls, strays>>

\* lib.rs:469-479: the two cells are read, then the tile map is built from
\* the arguments from and to (here the tile coordinates of the two corners)
Build(from, to) ==
    LET keys == get_tile_keys_in_range(from, to)
        zero == [k \in keys \cup {ForeignKey} |-> 0]
    IN  /\ Cardinality(keys) <= MaxTiles
        /\ tile_keys' = keys
        /\ tiles' = [k \in keys |-> Free]
        /\ served' = zero
        /\ fails' = zero
        /\ selects' = zero
        /\ frees' = zero

Setup ==
    /\ pc = "setup"
    /\ InRange
    /\ IF ~api_version
         THEN /\ result' = Err("IntelApiVersion")
              /\ pc' = "returned"
              /\ UNCHANGED <<tile_keys, tiles, served, fails, selects, frees>>
         ELSE IF ~csrftoken
                THEN /\ result' = Err("CsrfToken")
                     /\ pc' = "returned"
                     /\ UNCHANGED <<tile_keys, tiles, served, fails, selects, frees>>
                ELSE /\ \E from \in Xs \X Ys, to \in Xs \X Ys : Build(from, to)
                     /\ pc' = "throttle"
                     /\ UNCHANGED result
    /\ UNCHANGED aux_vars
    /\ ev' = NoEvent
    /\ UNCHANGED <<rate_limit, api_version, csrftoken, tasks, calls, strays>>

\* lib.rs:554-555: ThrottleRate::new and ThrottlePool::new of stream_throttle.
\* The crate is not part of the repository: given a zero count or a zero
\* duration it may panic or build a pool, both are allowed.
Throttle ==
    /\ pc = "throttle"
    /\ \/ pc' = "loop"
       \/ /\ rate_limit[1] = 0 \/ rate_limit[2] = 0
          /\ pc' = "throttle_panic"
    /\ UNCHANGED aux_vars
    /\ ev' = NoEvent
    /\ UNCHANGED <<tile_keys, rate_limit, api_version, csrftoken, tiles, tasks,
                   result, served, fails, selects, frees, calls, strays>>

(* ------------------------------- the loop ------------------------------ *)
\* get_counts, lib.rs:545-552
get_counts(m) ==
    LET free == Cardinality(FreeKeys(m))
        busy == Cardinality(BusyKeys(m))
    IN  free + busy > 0

\* a tick that hands two get_tiles futures to for_each_concurrent
TickBodyTwice ==
    /\ pc = "loop"
    /\ IF get_counts(tiles)
         THEN /\ BagCardinality(tasks) < MaxTasks
              /\ tasks' = tasks (+) One(Started) (+) One(Started)
              /\ UNCHANGED pc
         ELSE /\ pc' = "drain"
              /\ UNCHANGED tasks
    /\ ev' = NoEvent
    /\ UNCHANGED <<tile_keys, rate_limit, api_version, csrftoken, tiles, result,
                   served, fails, selects, frees, calls, strays>>

\* lib.rs:556-559: the throttle admits an item, take_while evaluates
\* get_counts(); TRUE hands the item to for_each_concurrent, which pushes a
\* get_tiles() future, FALSE ends the stream
TickBody ==
    /\ pc = "loop"
    /\ IF get_counts(tiles)
         THEN /\ BagCardinality(tasks) < MaxTasks
              /\ tasks' = tasks (+) One(Started)
              /\ UNCHANGED pc
         ELSE /\ pc' = "drain"
              /\ UNCHANGED tasks
    /\ ev' = NoEvent
    /\ UNCHANGED <<tile_keys, rate_limit, api_version, csrftoken, tiles, result,
                   served, fails, selects, frees, calls, strays>>

\* Tick that waits until no future is left before it admits the next item
TickWhenIdle ==
    /\ tasks = EmptyBag
    /\ TickBody
    /\ UNCHANGED aux_vars

Tick == TickBody /\ UNCHANGED aux_vars

\* Select that forgets to mark the tiles it asks for
SelectNoMark ==
    /\ BagIn(Started, tasks)
    /\ \E ids \in SUBSET FreeKeys(tiles) :
          /\ Cardinality(ids) = Min2(BatchCeiling, Cardinality(FreeKeys(tiles)))
          /\ IF ids = {}
               THEN /\ tasks' = tasks (-) One(Started)
                    /\ UNCHANGED calls
               ELSE /\ tasks' = (tasks (-) One(Started)) (+) One(Waiting(ids))
                    /\ calls' = calls + 1
          /\ selects' = Bump(selects, ids)
    /\ UNCHANGED aux_vars
    /\ ev' = NoEvent
    /\ UNCHANGED <<pc, tile_keys, rate_limit, api_version, csrftoken, tiles,
                   result, served, fails, frees, strays>>

\* get_tiles, lib.rs:508-526: under the lock, up to BatchCeiling Free tiles
\* (in the HashMap's iteration order, hence any of them) are marked Busy;
\* none found ends the future, otherwise the request is sent
\* selection without the return on an empty ids: a request with no key is sent
SelectBodySendsEmpty(t) ==
    /\ BagIn(t, tasks)
    /\ \E ids \in SUBSET FreeKeys(tiles) :
          /\ Cardinality(ids) = Min2(BatchCeiling, Cardinality(FreeKeys(tiles)))
          /\ tiles' = [k \in DOMAIN tiles |-> IF k \in ids THEN Busy ELSE tiles[k]]
          /\ tasks' = (tasks (-) One(t)) (+) One(Waiting(ids))
          /\ calls' = calls + 1
          /\ selects' = Bump(selects, ids)
    /\ ev' = NoEvent
    /\ UNCHANGED <<pc, tile_keys, rate_limit, api_version, csrftoken, result,
                   served, fails, frees, strays>>

\* selection without the take(25): every Free tile goes into one request
SelectBodyNoTake(t) ==
    /\ BagIn(t, tasks)
    /\ LET ids == FreeKeys(tiles)
       IN  /\ tiles' = [k \in DOMAIN tiles |-> IF k \in ids THEN Busy ELSE tiles[k]]
           /\ IF ids = {}
                THEN /\ tasks' = tasks (-) One(t)
                     /\ UNCHANGED calls
                ELSE /\ tasks' = (tasks (-) One(t)) (+) One(Waiting(ids))
                     /\ calls' = calls + 1
           /\ selects' = Bump(selects, ids)
    /\ ev' = NoEvent
    /\ UNCHANGED <<pc, tile_keys, rate_limit, api_version, csrftoken, result,
                   served, fails, frees, strays>>

\* lib.rs:509-526, get_tiles from the scan to the request that is built;
\* t is the future that runs the step
SelectBody(t) ==
    /\ BagIn(t, tasks)
    /\ \E ids \in SUBSET FreeKeys(tiles) :
          /\ Cardinality(ids) = Min2(BatchCeiling, Cardinality(FreeKeys(tiles)))
          /\ tiles' = [k \in DOMAIN tiles |-> IF k \in ids THEN Busy ELSE tiles[k]]
          /\ IF ids = {}
               THEN /\ tasks' = tasks (-) One(t)
                    /\ UNCHANGED calls
               ELSE /\ tasks' = (tasks (-) One(t)) (+) One(Waiting(ids))
                    /\ calls' = calls + 1
          /\ selects' = Bump(selects, ids)
    /\ ev' = NoEvent
    /\ UNCHANGED <<pc, tile_keys, rate_limit, api_version, csrftoken, result,
                   served, fails, frees, strays>>

\* Select that marks the tiles it found and asks for all but one of them
SelectDropsOne ==
    /\ BagIn(Started, tasks)
    /\ \E ids \in SUBSET FreeKeys(tiles) :
          /\ Cardinality(ids) = Min2(BatchCeiling, Cardinality(FreeKeys(tiles)))
          /\ tiles' = [k \in DOMAIN tiles |-> IF k \in ids THEN Busy ELSE tiles[k]]
          /\ IF ids = {}
               THEN /\ tasks' = tasks (-) One(Started)
                    /\ UNCHANGED calls
               ELSE /\ \E k \in ids :
                          tasks' = (tasks (-) One(Started)) (+) One(Waiting(ids \ {k}))
                    /\ calls' = calls + 1
          /\ selects' = Bump(selects, ids)
    /\ ev' = NoEvent
    /\ UNCHANGED aux_vars
    /\ UNCHANGED <<pc, tile_keys, rate_limit, api_version, csrftoken, result,
                   served, fails, frees, strays>>

Select == SelectBody(Started) /\ UNCHANGED aux_vars

\* Apply storing, for every tile answered with entities, the smallest payload
\* of the answer instead of the tile's own
ApplyOnePayload(m, resp) ==
    LET got == { resp[k].val : k \in { j \in DOMAIN resp : resp[j].ok } }
        least == CHOOSE p \in got : \A q \in got : p <= q
    IN  [k \in DOMAIN m \cup DOMAIN resp |->
            IF k \in DOMAIN resp
              THEN IF resp[k].ok THEN Done(least) ELSE Free
              ELSE m[k]]

\* Apply that gives up the whole answer when one entry of it is an error
ApplyAllOrNothing(m, resp) ==
    [k \in DOMAIN m \cup DOMAIN resp |->
        IF k \in DOMAIN resp
          THEN IF \A j \in DOMAIN resp : resp[j].ok THEN Done(resp[k].val) ELSE Free
          ELSE m[k]]

\* lock.insert(id, state) for every entry of the answer, lib.rs:530-536
Apply(m, resp) ==
    [k \in DOMAIN m \cup DOMAIN resp |->
        IF k \in DOMAIN resp
          THEN IF resp[k].ok THEN Done(resp[k].val) ELSE Free
          ELSE m[k]]

\* Release that writes nothing back: the tiles of a failed request stay Busy
ReleaseNothing(m, ids) == m

\* Release that gives the tiles of a failed request up as Done
ReleaseAsDone(m, ids) ==
    [k \in DOMAIN m \cup ids |->
        IF k \in ids THEN Done(CHOOSE p \in Payloads : TRUE) ELSE m[k]]

\* Release that sets free every tile that is Busy, of this request or not
ReleaseEveryBusy(m, ids) ==
    [k \in DOMAIN m \cup ids |-> IF k \in ids \/ is_busy(m[k]) THEN Free ELSE m[k]]

\* lock.insert(id, Free) for every id of the request, lib.rs:538-541
Release(m, ids) ==
    [k \in DOMAIN m \cup ids |-> IF k \in ids THEN Free ELSE m[k]]

Freed(m, n) == { k \in DOMAIN m : is_busy(m[k]) /\ k \in DOMAIN n /\ is_free(n[k]) }

\* get_tiles, lib.rs:528-536: inner_call returned Ok(res)
ResolveOkBody(b, resp) ==
    /\ LET failed == { k \in DOMAIN resp : ~resp[k].ok }
       IN  /\ SumOver(fails, DOMAIN fails) + Cardinality(failed) <= MaxFail
           /\ fails' = Bump(fails, failed)
    /\ tiles' = Apply(tiles, resp)
    /\ frees' = Bump(frees, Freed(tiles, tiles'))
    /\ served' = [k \in DOMAIN served |->
                    IF k \in DOMAIN resp /\ resp[k].ok
                      THEN resp[k].val ELSE served[k]]
    /\ tasks' = tasks (-) One(b)
    /\ ev' = [op |-> "resolve_ok", ids |-> b.ids, resp |-> resp]
    /\ strays + Cardinality(DOMAIN resp \ b.ids) <= MaxStray
    /\ strays' = strays + Cardinality(DOMAIN resp \ b.ids)
    /\ UNCHANGED <<pc, tile_keys, rate_limit, api_version, csrftoken, result,
                   selects, calls>>

ResolveOk(b, resp) ==
    /\ b \in Outstanding
    /\ ResolveOkBody(b, resp)
    /\ UNCHANGED aux_vars

\* ResolveErr that hands the error of inner_call to the caller (as ? would)
ResolveErrPropagates(b) ==
    /\ b \in Outstanding
    /\ SumOver(fails, DOMAIN fails) + Cardinality(b.ids) <= MaxFail
    /\ fails' = Bump(fails, b.ids)
    /\ tasks' = tasks (-) One(b)
    /\ pc' = "returned"
    /\ result' = Err("Transport")
    /\ UNCHANGED aux_vars
    /\ ev' = [op |-> "resolve_err", ids |-> b.ids, resp |-> << >>]
    /\ UNCHANGED <<tile_keys, rate_limit, api_version, csrftoken, tiles,
                   served, selects, frees, calls, strays>>

\* get_tiles, lib.rs:537-542: inner_call returned Err (the request could not
\* be built or sent, the status was an error, the body did not decode)
ResolveErrBody(b) ==
    /\ SumOver(fails, DOMAIN fails) + Cardinality(b.ids) <= MaxFail
    /\ fails' = Bump(fails, b.ids)
    /\ tiles' = Release(tiles, b.ids)
    /\ frees' = Bump(frees, Freed(tiles, tiles'))
    /\ tasks' = tasks (-) One(b)
    /\ ev' = [op |-> "resolve_err", ids |-> b.ids, resp |-> << >>]
    /\ UNCHANGED <<pc, tile_keys, rate_limit, api_version, csrftoken, result,
                   served, selects, calls, strays>>

ResolveErr(b) ==
    /\ b \in Outstanding
    /\ ResolveErrBody(b)
    /\ UNCHANGED aux_vars

\* TileState::unwrap, lib.rs:667-673
CanUnwrap(s) == is_done(s)

\* lib.rs:560-563: for_each_concurrent is over once the stream has ended and
\* every future has finished; the map is taken out of the mutex and unwrapped
Collect ==
    /\ pc = "drain"
    /\ tasks = EmptyBag
    /\ IF \A k \in DOMAIN tiles : CanUnwrap(tiles[k])
         THEN /\ result' = Ok(Values(tiles))
              /\ pc' = "returned"
         ELSE /\ pc' = "unreachable"
              /\ UNCHANGED result
    /\ UNCHANGED aux_vars
    /\ ev' = NoEvent
    /\ UNCHANGED <<tile_keys, rate_limit, api_version, csrftoken, tiles, tasks,
                   served, fails, selects, frees, calls, strays>>

Prologue == LoginOk \/ LoginErr \/ Setup \/ Throttle

\* the endpoint answers with keys of the request only
Next ==
    \/ Prologue
    \/ Tick
    \/ Select
    \/ \E b \in Outstanding : \E resp \in Responses(b.ids, {}) : ResolveOk(b, resp)
    \/ \E b \in Outstanding : ResolveErr(b)
    \/ Collect

Spec == Init /\ [][Next]_vars

\* the endpoint may add a key that was not in the request
NextAny ==
    \/ Prologue
    \/ Tick
    \/ Select
    \/ \E b \in Outstanding : \E resp \in Responses(b.ids, IF strays < MaxStray THEN KeyUniverse ELSE {}) :
             ResolveOk(b, resp)
    \/ \E b \in Outstanding : ResolveErr(b)
    \/ Collect

InitAny == Init /\ rate_limit = <<1, 1>>

SpecAny == InitAny /\ [][NextAny]_vars

\* Scheduling of the loop: the throttled stream keeps yielding items, a
\* future that can run is polled, a request that was sent is answered, and
\* the caller keeps polling get_entities_in_range.
Resolve ==
    \E b \in Outstanding :
        \/ ResolveErr(b)
        \/ \E resp \in Responses(b.ids, {}) : ResolveOk(b, resp)

Fairness ==
    /\ WF_vars(Prologue)
    /\ WF_vars(Tick)
    /\ WF_vars(Select)
    /\ WF_vars(Resolve)
    /\ WF_vars(Collect)

LiveSpec == Init /\ [][Next]_vars /\ Fairness

TypeOK ==
    /\ pc \in {"login", "setup", "throttle", "loop", "drain", "returned",
              "throttle_panic", "unreachable"}
    /\ DOMAIN tiles \subseteq KeyUniverse
    /\ \A k \in DOMAIN tiles : tiles[k] \in {Free, Busy} \cup { Done(p) : p \in Payloads }


(* ================== the loop, one critical section at a time =========== *)
\* The futures of for_each_concurrent and the get_counts of take_while take
\* the tokio Mutex of the tile map (tiles.lock().await) and drop it again;
\* tiles_lock says what the guard that is alive is used for.
MaxTicks == 5

\* a get_tiles future that holds the guard of lib.rs:508
Selecting == [st |-> "select", ids |-> {}]
\* a get_tiles future whose inner_call has returned and that holds the guard
\* of lib.rs:529 or lib.rs:538
Updating(ids) == [st |-> "update", ids |-> ids]

LockHolders == { t \in BagToSet(tasks) : t.st \in {"select", "update"} }

\* lib.rs:556-557 and 546: the throttle yields an item, take_while calls
\* get_counts, which takes the lock
AcquireCount ==
    /\ pc = "loop"
    /\ tiles_lock = "none"
    /\ ticks < MaxTicks
    /\ get_counts(tiles) => BagCardinality(tasks) < MaxTasks
    /\ tiles_lock' = "count"
    /\ ticks' = ticks + 1
    /\ ev' = NoEvent
    /\ UNCHANGED <<pc, tile_keys, rate_limit, api_version, csrftoken, tiles, tasks,
                   result, served, fails, selects, frees, calls, strays>>
    /\ UNCHANGED <<cookie_lock, tk, geo, login_vars, fn>>

\* lib.rs:547-552 and 558-559: count, drop the guard, and push a get_tiles
\* future or end the stream
LockedCount ==
    /\ tiles_lock = "count"
    /\ TickBody
    /\ tiles_lock' = "none"
    /\ UNCHANGED <<ticks, cookie_lock, tk, geo, login_vars, fn>>

\* lib.rs:508: let mut lock = tiles.lock().await
AcquireSelect ==
    /\ BagIn(Started, tasks)
    /\ tiles_lock = "none"
    /\ tiles_lock' = "select"
    /\ tasks' = (tasks (-) One(Started)) (+) One(Selecting)
    /\ ev' = NoEvent
    /\ UNCHANGED <<pc, tile_keys, rate_limit, api_version, csrftoken, tiles,
                   result, served, fails, selects, frees, calls, strays>>
    /\ UNCHANGED <<ticks, cookie_lock, tk, geo, login_vars, fn>>

\* the selection that goes on to inner_call with the guard still alive
LockedSelectKeepsLock ==
    /\ tiles_lock = "select"
    /\ SelectBody(Selecting)
    /\ UNCHANGED <<tiles_lock, ticks, cookie_lock, tk, geo, login_vars, fn>>

\* lib.rs:509-526: scan, mark, and return (guard dropped at the end of the
\* function) or drop(lock) before inner_call
LockedSelect ==
    /\ tiles_lock = "select"
    /\ SelectBody(Selecting)
    /\ tiles_lock' = "none"
    /\ UNCHANGED <<ticks, cookie_lock, tk, geo, login_vars, fn>>

\* lib.rs:528-529 and 538: inner_call has returned, the future takes the lock
AcquireUpdate(b) ==
    /\ b \in Outstanding
    /\ tiles_lock = "none"
    /\ tiles_lock' = "update"
    /\ tasks' = (tasks (-) One(b)) (+) One(Updating(b.ids))
    /\ ev' = NoEvent
    /\ UNCHANGED <<pc, tile_keys, rate_limit, api_version, csrftoken, tiles,
                   result, served, fails, selects, frees, calls, strays>>
    /\ UNCHANGED <<ticks, cookie_lock, tk, geo, login_vars, fn>>

\* lib.rs:530-536, the guard is dropped at the end of the block
LockedResolveOk(b, resp) ==
    /\ tiles_lock = "update"
    /\ b \in LockHolders
    /\ ResolveOkBody(b, resp)
    /\ tiles_lock' = "none"
    /\ UNCHANGED <<ticks, cookie_lock, tk, geo, login_vars, fn>>

\* lib.rs:539-541, the guard is dropped at the end of the block
LockedResolveErr(b) ==
    /\ tiles_lock = "update"
    /\ b \in LockHolders
    /\ ResolveErrBody(b)
    /\ tiles_lock' = "none"
    /\ UNCHANGED <<ticks, cookie_lock, tk, geo, login_vars, fn>>

StepNext ==
    \/ Prologue
    \/ AcquireCount
    \/ LockedCount
    \/ AcquireSelect
    \/ LockedSelect
    \/ \E b \in Outstanding : AcquireUpdate(b)
    \/ \E b \in LockHolders : \E resp \in Responses(b.ids, {}) : LockedResolveOk(b, resp)
    \/ \E b \in LockHolders : LockedResolveErr(b)
    \/ Collect

StepSpec == InitAny /\ [][StepNext]_vars

(* ============== the loop, with the lock of the cookie store ============ *)
\* inner_call (lib.rs:486-505) between the selection and the update of a
\* get_tiles future: get_cookies takes a read guard of the cookie store
\* (lib.rs:130), client.execute is awaited with no guard (lib.rs:108), call
\* takes the write guard to store the cookies of the response (lib.rs:121),
\* and the body is read after call has returned (lib.rs:501).
Reading(ids) == [st |-> "cookies", ids |-> ids]
Sent(ids) == [st |-> "sent", ids |-> ids]
Storing(ids) == [st |-> "store", ids |-> ids]
Body(ids) == [st |-> "body", ids |-> ids]
Failed(ids) == [st |-> "failed", ids |-> ids]
Releasing(ids) == [st |-> "update_err", ids |-> ids]

\* the futures that are at one of the places sts
At(sts) == { t \in BagToSet(tasks) : t.st \in sts }
\* how many they are
CountAt(sts) == SumOver([t \in At(sts) |-> CopiesIn(t, tasks)], At(sts))

\* the future b goes on as c; the tile map and the counters stay
Becomes(b, c) ==
    /\ tasks' = (tasks (-) One(b)) (+) One(c)
    /\ ev' = NoEvent
    /\ UNCHANGED <<pc, tile_keys, rate_limit, api_version, csrftoken, tiles,
                   result, served, fails, selects, frees, calls, strays>>
    /\ UNCHANGED <<ticks, tk, geo, login_vars, fn>>

\* lib.rs:492 and 130: cookie_store.read().await
AcquireRead(b) ==
    /\ b \in At({"wait"})
    /\ ~cookie_lock.w
    /\ cookie_lock' = [cookie_lock EXCEPT !.r = @ + 1]
    /\ Becomes(b, Reading(b.ids))
    /\ UNCHANGED tiles_lock

\* lib.rs:131-132 and 493-501: the header is built, the guard dropped at the
\* return of get_cookies; the request is built and handed to client.execute,
\* or cannot be built
ReleaseRead(b) ==
    /\ b \in At({"cookies"})
    /\ cookie_lock' = [cookie_lock EXCEPT !.r = @ - 1]
    /\ \/ Becomes(b, Sent(b.ids))
       \/ Becomes(b, Failed(b.ids))
    /\ UNCHANGED tiles_lock

\* lib.rs:108-121: the response has come with a good status,
\* cookie_store.write().await
AcquireWrite(b) ==
    /\ b \in At({"sent"})
    /\ cookie_lock = NoGuard
    /\ cookie_lock' = [cookie_lock EXCEPT !.w = TRUE]
    /\ Becomes(b, Storing(b.ids))
    /\ UNCHANGED tiles_lock

\* lib.rs:122-126: the cookies are stored, call returns, the guard is dropped
ReleaseWrite(b) ==
    /\ b \in At({"store"})
    /\ cookie_lock' = [cookie_lock EXCEPT !.w = FALSE]
    /\ Becomes(b, Body(b.ids))
    /\ UNCHANGED tiles_lock

\* lib.rs:528-529: the body was read as an IntelResponse, tiles.lock().await
AcquireUpdateOk(b) ==
    /\ b \in At({"body"})
    /\ tiles_lock = "none"
    /\ tiles_lock' = "update"
    /\ Becomes(b, Updating(b.ids))
    /\ UNCHANGED cookie_lock

\* lib.rs:537-538: the request was not built, call returned an error or the
\* body was no IntelResponse, tiles.lock().await
AcquireUpdateErr(b) ==
    /\ b \in At({"failed", "sent", "body"})
    \* the failures counted stay within MaxFail
    /\ SumOver(fails, DOMAIN fails) + Cardinality(b.ids) <= MaxFail
    /\ tiles_lock = "none"
    /\ tiles_lock' = "update"
    /\ Becomes(b, Releasing(b.ids))
    /\ UNCHANGED cookie_lock

\* lib.rs:539-541, the guard is dropped at the end of the block
LockedRelease(b) ==
    /\ tiles_lock = "update"
    /\ b \in At({"update_err"})
    /\ ResolveErrBody(b)
    /\ tiles_lock' = "none"
    /\ UNCHANGED <<ticks, cookie_lock, tk, geo, login_vars, fn>>

\* a step of a get_tiles future
FutureNext ==
    \/ AcquireSelect
    \/ LockedSelect
    \/ \E b \in At({"wait"}) : AcquireRead(b)
    \/ \E b \in At({"cookies"}) : ReleaseRead(b)
    \/ \E b \in At({"sent"}) : AcquireWrite(b)
    \/ \E b \in At({"store"}) : ReleaseWrite(b)
    \/ \E b \in At({"body"}) : AcquireUpdateOk(b)
    \/ \E b \in At({"failed", "sent", "body"}) : AcquireUpdateErr(b)
    \/ \E b \in At({"update"}) : \E resp \in Responses(b.ids, {}) : LockedResolveOk(b, resp)
    \/ \E b \in At({"update_err"}) : LockedRelease(b)

LockNext ==
    \/ Prologue
    \/ AcquireCount
    \/ LockedCount
    \/ FutureNext
    \/ Collect

LockSpec == InitAny /\ [][LockNext]_vars

(* ======================= TileKey: Display and FromStr ================== *)
\* x and y are i64 in tile_key.rs.  TLC computes with 32-bit integers, so the
\* model's x and y are signed 32-bit; the parser's overflow checks are kept,
\* against these limits.
IntMax == 2 * (2 ^ 30 - 1) + 1
IntMin == (-IntMax) - 1

DigitChars == << "0", "1", "2", "3", "4", "5", "6", "7", "8", "9" >>
IsDigit(c) == \E n \in 1 .. 10 : DigitChars[n] = c
DigitVal(c) == (CHOOSE n \in 1 .. 10 : DigitChars[n] = c) - 1

\* decimal digits of n >= 0
RECURSIVE Digits(_)
Digits(n) ==
    IF n < 10 THEN << DigitChars[n + 1] >>
    ELSE Digits(n \div 10) \o << DigitChars[(n % 10) + 1] >>

\* decimal digits of -n for n <= 0, without negating n (IntMin has no negation)
RECURSIVE MagDigits(_)
MagDigits(n) ==
    IF n > -10 THEN << DigitChars[(-n) + 1] >>
    ELSE LET d == (10 - (n % 10)) % 10
         IN  MagDigits((n + d) \div 10) \o << DigitChars[d + 1] >>

\* {} of an integer in a format string (core::fmt::Display for u8 and i64)
FmtInt(n) == IF n < 0 THEN << "-" >> \o MagDigits(n) ELSE Digits(n)

\* impl fmt::Display for TileKey, tile_key.rs:120-124
Display(k) ==
    FmtInt(k.zoom) \o << "_" >> \o FmtInt(k.x) \o << "_" >> \o FmtInt(k.y)
        \o << "_" >> \o FmtInt(k.min_level) \o << "_" >> \o FmtInt(k.max_level)
        \o << "_" >> \o FmtInt(k.health)

\* str::split('_'): the fields between the underscores, at least one
RECURSIVE SplitFrom(_, _, _)
SplitFrom(s, cur, out) ==
    IF s = << >> THEN Append(out, cur)
    ELSE IF Head(s) = "_" THEN SplitFrom(Tail(s), << >>, Append(out, cur))
    ELSE SplitFrom(Tail(s), Append(cur, Head(s)), out)

Split(s) == SplitFrom(s, << >>, << >>)

Parsed(n) == [ok |-> TRUE, val |-> n, err |-> ""]
ParseError(e) == [ok |-> FALSE, val |-> 0, err |-> e]

CeilDiv10(a) == (a \div 10) + (IF a % 10 = 0 THEN 0 ELSE 1)

\* the digit loop of from_str_radix for a number that is not negative:
\* checked_mul(10), then checked_add(digit)
RECURSIVE ParseUp(_, _, _)
ParseUp(ds, acc, hi) ==
    IF ds = << >> THEN Parsed(acc)
    ELSE IF ~IsDigit(Head(ds)) THEN ParseError("InvalidDigit")
    ELSE LET d == DigitVal(Head(ds))
         IN  IF acc > hi \div 10 \/ acc * 10 > hi - d
               THEN ParseError("PosOverflow")
               ELSE ParseUp(Tail(ds), acc * 10 + d, hi)

\* the digit loop for a negative number: checked_mul(10), checked_sub(digit)
RECURSIVE ParseDown(_, _, _)
ParseDown(ds, acc, lo) ==
    IF ds = << >> THEN Parsed(acc)
    ELSE IF ~IsDigit(Head(ds)) THEN ParseError("InvalidDigit")
    ELSE LET d == DigitVal(Head(ds))
         IN  IF acc < CeilDiv10(lo) \/ acc * 10 < lo + d
               THEN ParseError("NegOverflow")
               ELSE ParseDown(Tail(ds), acc * 10 - d, lo)

\* <u8 as FromStr>::from_str: an optional +, digits, at most 255
parse_u8(t) ==
    IF t = << >> THEN ParseError("Empty")
    ELSE IF t = << "+" >> \/ t = << "-" >> THEN ParseError("InvalidDigit")
    ELSE IF Head(t) = "+" THEN ParseUp(Tail(t), 0, 255)
    ELSE ParseUp(t, 0, 255)

\* parse_i64 that takes no sign, as for an unsigned x or y
parse_i64_no_sign(t) ==
    IF t = << >> THEN ParseError("Empty")
    ELSE ParseUp(t, 0, IntMax)

\* <i64 as FromStr>::from_str: an optional + or -, digits, within the range
parse_i64(t) ==
    IF t = << >> THEN ParseError("Empty")
    ELSE IF t = << "+" >> \/ t = << "-" >> THEN ParseError("InvalidDigit")
    ELSE IF Head(t) = "+" THEN ParseUp(Tail(t), 0, IntMax)
    ELSE IF Head(t) = "-" THEN ParseDown(Tail(t), 0, IntMin)
    ELSE ParseUp(t, 0, IntMax)

FieldNames == << "zoom", "x", "y", "min_level", "max_level", "health" >>

ParseField(i, t) == IF i \in {2, 3} THEN parse_i64(t) ELSE parse_u8(t)

TileKey(zoom, x, y, min_level, max_level, health) ==
    [zoom |-> zoom, x |-> x, y |-> y, min_level |-> min_level,
     max_level |-> max_level, health |-> health]

NoTileKey == TileKey(0, 0, 0, 0, 0, 0)

KeyOk(k) == [kind |-> "Ok", key |-> k, field |-> "", why |-> ""]
KeyMissing(f) == [kind |-> "Missing", key |-> NoTileKey, field |-> f, why |-> ""]
KeyInvalid(f, e) == [kind |-> "Invalid", key |-> NoTileKey, field |-> f, why |-> e]

\* from_str that reports the last field that is absent or does not parse
from_str_last_bad(s) ==
    LET f == Split(s)
        bad == { i \in 1 .. 6 : i > Len(f) \/ ~ParseField(i, f[i]).ok }
    IN  IF bad = {}
          THEN KeyOk(TileKey(ParseField(1, f[1]).val, ParseField(2, f[2]).val,
                             ParseField(3, f[3]).val, ParseField(4, f[4]).val,
                             ParseField(5, f[5]).val, ParseField(6, f[6]).val))
          ELSE LET i == CHOOSE i \in bad : \A j \in bad : i >= j
               IN  IF i > Len(f)
                     THEN KeyMissing(FieldNames[i])
                     ELSE KeyInvalid(FieldNames[i], ParseField(i, f[i]).err)

\* impl FromStr for TileKey, tile_key.rs:134-171: the six fields are taken
\* from the iterator and parsed in order, the first that is absent or does
\* not parse ends the call; fields after the sixth are not looked at
from_str(s) ==
    LET f == Split(s)
        bad == { i \in 1 .. 6 : i > Len(f) \/ ~ParseField(i, f[i]).ok }
    IN  IF bad = {}
          THEN KeyOk(TileKey(ParseField(1, f[1]).val, ParseField(2, f[2]).val,
                             ParseField(3, f[3]).val, ParseField(4, f[4]).val,
                             ParseField(5, f[5]).val, ParseField(6, f[6]).val))
          ELSE LET i == CHOOSE i \in bad : \A j \in bad : i <= j
               IN  IF i > Len(f)
                     THEN KeyMissing(FieldNames[i])
                     ELSE KeyInvalid(FieldNames[i], ParseField(i, f[i]).err)

\* the keys that are encoded and decoded: every zoom with x = y over the
\* sample coordinates, and every pair of sample coordinates with sample
\* filters
SampleCoords == { IntMin, -17105, -10, -1, 0, 7, 11440, IntMax }
SampleLevels == { 0, 8, 255 }
SampleKeys ==
    { TileKey(z, c, c, 0, 8, 100) : z \in 0 .. 255, c \in SampleCoords }
    \cup { TileKey(15, x, y, l, m, h) : x \in SampleCoords, y \in SampleCoords,
                                        l \in SampleLevels, m \in SampleLevels,
                                        h \in {0, 100, 255} }

KeyInit ==
    /\ InitCall
    /\ InRange
    /\ rate_limit = << 1, 1 >>
    /\ ~csrftoken
    /\ ~api_version
    /\ geo = NoGeo
    /\ NoLogin
    /\ \E k \in SampleKeys :
          tk = [step |-> "key", key |-> k, text |-> << >>, res |-> KeyOk(NoTileKey)]

\* key.to_string()
KeyToString ==
    /\ tk.step = "key"
    /\ tk' = [tk EXCEPT !.step = "text", !.text = Display(tk.key)]
    /\ UNCHANGED << call_vars, geo, login_vars, step_vars, fn >>

\* TileKey::from_str(&text)
KeyFromStr ==
    /\ tk.step = "text"
    /\ tk' = [tk EXCEPT !.step = "parsed", !.res = from_str(tk.text)]
    /\ UNCHANGED << call_vars, geo, login_vars, step_vars, fn >>

KeyNext == KeyToString \/ KeyFromStr

KeySpec == KeyInit /\ [][KeyNext]_vars

(* ----------------------- from_str on arbitrary text -------------------- *)
\* field texts handed to from_str, each with what it is: u8 says that the
\* text is a number a u8 holds, i64 that it is a number the (32-bit) x and y
\* of the model hold
Tok(text, u8, i64) == [text |-> text, u8 |-> u8, i64 |-> i64]

Tokens ==
    { Tok(<< "1", "5" >>, TRUE, TRUE),
      Tok(<< "0" >>, TRUE, TRUE),
      Tok(<< "2", "5", "5" >>, TRUE, TRUE),
      Tok(<< "2", "5", "6" >>, FALSE, TRUE),
      Tok(<< "-", "1" >>, FALSE, TRUE),
      Tok(<< "+", "7" >>, TRUE, TRUE),
      Tok(<< >>, FALSE, FALSE),
      Tok(<< "x" >>, FALSE, FALSE),
      Tok(<< "1", "x" >>, FALSE, FALSE),
      Tok(<< "-" >>, FALSE, FALSE),
      Tok(<< "2", "1", "4", "7", "4", "8", "3", "6", "4", "8" >>, FALSE, FALSE),
      Tok(<< "-", "2", "1", "4", "7", "4", "8", "3", "6", "4", "8" >>, FALSE, TRUE),
      Tok(<< "-", "2", "1", "4", "7", "4", "8", "3", "6", "4", "9" >>, FALSE, FALSE) }

\* the fields of "15_17105_11440_0_8_100", followed by a seventh field
BaseFields ==
    << Tok(<< "1", "5" >>, TRUE, TRUE),
       Tok(<< "1", "7", "1", "0", "5" >>, FALSE, TRUE),
       Tok(<< "1", "1", "4", "4", "0" >>, FALSE, TRUE),
       Tok(<< "0" >>, TRUE, TRUE),
       Tok(<< "8" >>, TRUE, TRUE),
       Tok(<< "1", "0", "0" >>, TRUE, TRUE),
       Tok(<< "x" >>, FALSE, FALSE) >>

\* the fields written one after the other with an underscore in between
RECURSIVE Join(_)
Join(f) ==
    IF Len(f) = 0 THEN << >>
    ELSE IF Len(f) = 1 THEN f[1].text
    ELSE f[1].text \o << "_" >> \o Join(Tail(f))

\* the texts: the first n fields of the base text with the fields i and j
\* replaced by tokens.  A text always has a first field, the empty text has
\* an empty one.
ParseInit ==
    /\ InitCall
    /\ InRange
    /\ rate_limit = << 1, 1 >>
    /\ ~csrftoken
    /\ ~api_version
    /\ geo = NoGeo
    /\ NoLogin
    /\ \E n \in 1 .. 7, i \in 1 .. 6, j \in 1 .. 6, a \in Tokens, b \in Tokens :
          /\ i <= j
          /\ LET f == SubSeq([BaseFields EXCEPT ![i] = a, ![j] = b], 1, n)
             IN  tk = [step |-> "text", key |-> NoTileKey, fields |-> f,
                       text |-> Join(f), res |-> KeyOk(NoTileKey)]

ParseNext == KeyFromStr

ParseSpec == ParseInit /\ [][ParseNext]_vars

(* =================== TileKey: new, range and square ==================== *)
\* Coordinates are exact integers in place of f64.  A longitude is given in
\* hundredths of a degree (-18000 .. 18000).  A latitude is given by its
\* Mercator ordinate
\*     (1 - ln(tan(lat) + 1 / cos(lat)) / PI) / 2
\* of lat2tile, in 1/Circle of the height of the map counted from its north
\* edge: 0 is 85.0511 N, 18000 the equator, 12870 is 45.5636024140848 N.  The
\* ordinate falls strictly as the latitude rises, so a latitude lies between
\* two latitudes exactly when its ordinate lies between their ordinates.
\* Rounding of the floating-point operations is not modelled.
MaxSpan == 4

DEFAULT_ZOOM == 15

TILES_PER_EDGE ==
    << 1, 1, 1, 40, 40, 80, 80, 320, 1000, 2000, 2000, 4000, 8000, 16000,
       16000, 32000 >>

\* hundredths of a degree in a full turn: the 360 of lng2tile and tile2lng
Circle == 36000

Some(v) == [some |-> TRUE, val |-> v]
None == [some |-> FALSE, val |-> 0]
unwrap_or(o, d) == IF o.some THEN o.val ELSE d

clamp(v, lo, hi) == IF v < lo THEN lo ELSE IF v > hi THEN hi ELSE v

\* indexing of the table: 0 stands for the panic of an index out of bounds
\* (no entry of the table is 0)
TableAt(i) == IF i + 1 \in DOMAIN TILES_PER_EDGE THEN TILES_PER_EDGE[i + 1] ELSE 0

\* get_tiles_per_edge that indexes the table with the zoom itself
get_tiles_per_edge_no_clamp(zoom) == TableAt(zoom)

\* get_tiles_per_edge, tile_key.rs:7-9
get_tiles_per_edge(zoom) == TableAt(clamp(zoom, 3, 15))

\* lat2tile, tile_key.rs:11-16, on the Mercator ordinate of the latitude
lat2tile(latitude, tiles_per_edge) == (latitude * tiles_per_edge) \div Circle

\* lng2tile that rounds up
lng2tile_ceil(longitude, tiles_per_edge) ==
    -(((-(longitude + (Circle \div 2))) * tiles_per_edge) \div Circle)

\* lng2tile, tile_key.rs:18-21: floor((lng + 180) / 360 * tilesPerEdge)
lng2tile(longitude, tiles_per_edge) ==
    ((longitude + (Circle \div 2)) * tiles_per_edge) \div Circle

\* a coordinate that need not be on the grid: num / den
Ratio(num, den) == [num |-> num, den |-> den]

\* tile2lat, tile_key.rs:24-29: the Mercator ordinate of the latitude returned
tile2lat(y, tiles_per_edge) == Ratio(y * Circle, tiles_per_edge)

\* tile2lng, tile_key.rs:32-35: x / tilesPerEdge * 360 - 180
tile2lng(x, tiles_per_edge) ==
    Ratio(x * Circle - (Circle \div 2) * tiles_per_edge, tiles_per_edge)

\* TileKey::new with unwrap_or_default() in place of unwrap_or(100)
new_health_default(latitude, longitude, zoom, min_level, max_level, health) ==
    LET z == unwrap_or(zoom, DEFAULT_ZOOM)
        tiles_per_edge == get_tiles_per_edge(z)
    IN  TileKey(z, lng2tile(longitude, tiles_per_edge),
                lat2tile(latitude, tiles_per_edge),
                unwrap_or(min_level, 0), unwrap_or(max_level, 8),
                unwrap_or(health, 0))

\* TileKey::new, tile_key.rs:48-67
new(latitude, longitude, zoom, min_level, max_level, health) ==
    LET z == unwrap_or(zoom, DEFAULT_ZOOM)
        tiles_per_edge == get_tiles_per_edge(z)
    IN  TileKey(z, lng2tile(longitude, tiles_per_edge),
                lat2tile(latitude, tiles_per_edge),
                unwrap_or(min_level, 0), unwrap_or(max_level, 8),
                unwrap_or(health, 100))

\* the keys of x in from_x ..= to_x, and for each x of y in from_y ..= to_y
Grid(from_x, from_y, to_x, to_y, zoom, min_level, max_level, health) ==
    LET w == IF to_x < from_x THEN 0 ELSE to_x - from_x + 1
        h == IF to_y < from_y THEN 0 ELSE to_y - from_y + 1
    IN  [ n \in 1 .. w * h |->
            TileKey(zoom, from_x + ((n - 1) \div h), from_y + ((n - 1) % h),
                    unwrap_or(min_level, 0), unwrap_or(max_level, 8),
                    unwrap_or(health, 100)) ]

\* TileKey::range that goes from the first corner to the second as given
range_as_given(from, to, zoom, min_level, max_level, health) ==
    LET z == unwrap_or(zoom, DEFAULT_ZOOM)
        tiles_per_edge == get_tiles_per_edge(z)
        x1 == lng2tile(from[2], tiles_per_edge)
        y1 == lat2tile(from[1], tiles_per_edge)
        x2 == lng2tile(to[2], tiles_per_edge)
        y2 == lat2tile(to[1], tiles_per_edge)
    IN  Grid(x1, y1, x2, y2, z, min_level, max_level, health)

\* TileKey::range whose upper ends are exclusive
range_exclusive(from, to, zoom, min_level, max_level, health) ==
    LET z == unwrap_or(zoom, DEFAULT_ZOOM)
        tiles_per_edge == get_tiles_per_edge(z)
        x1 == lng2tile(from[2], tiles_per_edge)
        y1 == lat2tile(from[1], tiles_per_edge)
        x2 == lng2tile(to[2], tiles_per_edge)
        y2 == lat2tile(to[1], tiles_per_edge)
    IN  Grid(Min2(x1, x2), Min2(y1, y2), Max2(x1, x2) - 1, Max2(y1, y2) - 1,
             z, min_level, max_level, health)

\* TileKey::range, tile_key.rs:69-99; from and to are (latitude, longitude)
range(from, to, zoom, min_level, max_level, health) ==
    LET z == unwrap_or(zoom, DEFAULT_ZOOM)
        tiles_per_edge == get_tiles_per_edge(z)
        x1 == lng2tile(from[2], tiles_per_edge)
        y1 == lat2tile(from[1], tiles_per_edge)
        x2 == lng2tile(to[2], tiles_per_edge)
        y2 == lat2tile(to[1], tiles_per_edge)
        from_x == Min2(x1, x2)
        from_y == Min2(y1, y2)
        to_x == Max2(x1, x2)
        to_y == Max2(y1, y2)
    IN  Grid(from_x, from_y, to_x, to_y, z, min_level, max_level, health)

\* TileKey::square, tile_key.rs:101-107: the two ranges are zipped
square(self, side) ==
    [ i \in 1 .. side |-> [self EXCEPT !.x = self.x + (i - 1),
                                       !.y = self.y + (i - 1)] ]

\* the points (latitude, longitude) the functions are called with: on a tile
\* edge of zoom 15 (12870, 1242), inside tiles next to it, and far enough to
\* be in other tiles at the low zooms
Lats == { 12870, 12871, 12872, 12874, 14400 }
Lngs == { 1242, 1243, 1244, 1246, -1800 }
Points == Lats \X Lngs
NearPoints == { << 12870, 1242 >>, << 12872, 1244 >>, << 14400, -1800 >> }

AllZooms == { None } \cup { Some(z) : z \in 0 .. 255 }
SampleZooms == { None, Some(0), Some(3), Some(4), Some(15), Some(16), Some(255) }
Filters == { << None, None, None >>, << Some(1), Some(7), Some(50) >> }
Sides == { 0, 1, 2, 5 }

\* number of columns and of rows between the tiles of two points
Span(from, to, zoom) ==
    LET tiles_per_edge == get_tiles_per_edge(unwrap_or(zoom, DEFAULT_ZOOM))
        dx == lng2tile(from[2], tiles_per_edge) - lng2tile(to[2], tiles_per_edge)
        dy == lat2tile(from[1], tiles_per_edge) - lat2tile(to[1], tiles_per_edge)
    IN  << Max2(dx, -dx) + 1, Max2(dy, -dy) + 1 >>

GeoInit ==
    /\ InitCall
    /\ InRange
    /\ rate_limit = << 1, 1 >>
    /\ ~csrftoken
    /\ ~api_version
    /\ tk = NoKey
    /\ NoLogin
    /\ \E from \in Points, to \in Points, zoom \in AllZooms, f \in Filters :
          /\ zoom \in SampleZooms \/ to \in NearPoints \cup {from}
          /\ Span(from, to, zoom)[1] <= MaxSpan
          /\ Span(from, to, zoom)[2] <= MaxSpan
          /\ geo = [step |-> "args", from |-> from, to |-> to, zoom |-> zoom,
                    min_level |-> f[1], max_level |-> f[2], health |-> f[3],
                    key |-> NoTileKey, keys |-> << >>, side |-> 0, sq |-> << >>]

\* TileKey::new(from.0, from.1, zoom, min_level, max_level, health)
CallNew ==
    /\ geo.step = "args"
    /\ geo' = [geo EXCEPT !.step = "new",
                          !.key = new(geo.from[1], geo.from[2], geo.zoom,
                                      geo.min_level, geo.max_level, geo.health)]
    /\ UNCHANGED << call_vars, tk, login_vars, step_vars, fn >>

\* TileKey::range(from, to, zoom, min_level, max_level, health).collect()
CallRange ==
    /\ geo.step = "new"
    /\ geo' = [geo EXCEPT !.step = "range",
                          !.keys = range(geo.from, geo.to, geo.zoom,
                                         geo.min_level, geo.max_level, geo.health)]
    /\ UNCHANGED << call_vars, tk, login_vars, step_vars, fn >>

\* key.square(side).collect()
CallSquare ==
    /\ geo.step = "range"
    /\ \E side \in Sides :
          geo' = [geo EXCEPT !.step = "square", !.side = side,
                            !.sq = square(geo.key, side)]
    /\ UNCHANGED << call_vars, tk, login_vars, step_vars, fn >>

GeoNext == CallNew \/ CallRange \/ CallSquare

GeoSpec == GeoInit /\ [][GeoNext]_vars

(* ============================ Intel::login ============================= *)
\* login(), lib.rs:321-407, and facebook_login(), lib.rs:134-221, step by
\* step: a step runs from one await to the next.  A request is sent in one
\* step and its response handled in another (call(), lib.rs:102-127, stores
\* the cookies of the response, then the caller looks at the response).
\* calls of login() one caller may make
MaxLogins == 2

CookieNames == { "csrftoken", "c_user" }

\* the requests of login(): the Facebook page, the posted login form, the
\* Intel page, and the Intel page or the Facebook login URL found in it
Requests == { "fb_get", "fb_post", "intel1", "intel2" }

\* the place of a call that awaits the response to req
AwaitingOf(req) ==
    [fb_get |-> "await_fb_get", fb_post |-> "await_fb_post",
     intel1 |-> "await_intel1", intel2 |-> "await_intel2"][req]

LoginInit ==
    /\ InitCall
    /\ InRange
    /\ rate_limit = << 1, 1 >>
    \* Intel::new and Intel::build: both cells empty
    /\ ~csrftoken
    /\ ~api_version
    /\ tk = NoKey
    /\ geo = NoGeo
    \* add_cookie / add_cookies before the first login()
    /\ cookie_store \in SUBSET CookieNames
    /\ username \in BOOLEAN
    /\ password \in BOOLEAN
    /\ logins = [c \in Callers |-> Caller("idle", "none", {}, 0)]

\* the call of c goes on at the place at
GoTo(c, at) ==
    logins' = [logins EXCEPT ![c].pc = at]

\* the call of c returns res
Return(c, res) ==
    logins' = [logins EXCEPT ![c].pc = "done", ![c].res = res]

\* cookie_exists() of the call of c has answered what, the call goes on at at
Found(c, what, at) ==
    logins' = [logins EXCEPT ![c].pc = at, ![c].found = @ \cup {what}]

\* cookie_exists() of the call of c has answered what, the call returns res
FoundThenReturn(c, what, res) ==
    logins' = [logins EXCEPT ![c].pc = "done", ![c].res = res,
                             ![c].found = @ \cup {what}]

\* login() that does not look at api_version
LoginEnterNoCheck(c) ==
    /\ logins[c].pc \in {"idle", "done"}
    /\ logins[c].n < MaxLogins
    /\ logins' = [logins EXCEPT ![c] = Caller("check_csrftoken", "none", {}, @.n + 1)]
    /\ UNCHANGED << api_version, csrftoken, cookie_store, username, password >>
    /\ UNCHANGED << loop_vars, tk, geo, step_vars, fn >>

\* lib.rs:322-324: login() is called; with api_version set it returns Ok(())
LoginEnter(c) ==
    /\ logins[c].pc \in {"idle", "done"}
    /\ logins[c].n < MaxLogins
    /\ IF api_version
         THEN logins' = [logins EXCEPT ![c] = Caller("done", "Ok", {}, @.n + 1)]
         ELSE logins' = [logins EXCEPT ![c] = Caller("check_csrftoken", "none", {}, @.n + 1)]
    /\ UNCHANGED << api_version, csrftoken, cookie_store, username, password >>
    /\ UNCHANGED << loop_vars, tk, geo, step_vars, fn >>

\* lib.rs:327 and 374-376: cookie_exists("csrftoken")
CheckCsrftoken(c) ==
    /\ logins[c].pc = "check_csrftoken"
    /\ IF "csrftoken" \in cookie_store
         THEN Found(c, "csrftoken", "intel2")
         ELSE Found(c, "no_csrftoken", "check_c_user")
    /\ UNCHANGED << api_version, csrftoken, cookie_store, username, password >>
    /\ UNCHANGED << loop_vars, tk, geo, step_vars, fn >>

\* login() that goes through the Facebook login whatever cookie_exists("c_user")
\* finds
CheckCUserAlwaysFacebook(c) ==
    /\ logins[c].pc = "check_c_user"
    /\ IF ~username THEN FoundThenReturn(c, "c_user", "MissingFacebookUsername")
       ELSE IF ~password THEN FoundThenReturn(c, "c_user", "MissingFacebookPassword")
       ELSE Found(c, IF "c_user" \in cookie_store THEN "c_user" ELSE "no_c_user", "fb_get")
    /\ UNCHANGED << api_version, csrftoken, cookie_store, username, password >>
    /\ UNCHANGED << loop_vars, tk, geo, step_vars, fn >>

\* login() that starts the Facebook login before it looks at the credentials
CheckCUserSendsFirst(c) ==
    /\ logins[c].pc = "check_c_user"
    /\ IF "c_user" \in cookie_store THEN Found(c, "c_user", "intel1")
       ELSE logins' = [logins EXCEPT ![c].found = @ \cup {"no_c_user"},
                                     ![c].sent = @ \cup {"fb_get"},
                                     ![c].pc = IF ~username \/ ~password
                                                 THEN "done" ELSE AwaitingOf("fb_get"),
                                     ![c].res = IF ~username THEN "MissingFacebookUsername"
                                                ELSE IF ~password THEN "MissingFacebookPassword"
                                                ELSE @]
    /\ UNCHANGED << api_version, csrftoken, cookie_store, username, password >>
    /\ UNCHANGED << loop_vars, tk, geo, step_vars, fn >>

\* lib.rs:329-345: cookie_exists("c_user"), then the credentials
CheckCUser(c) ==
    /\ logins[c].pc = "check_c_user"
    /\ IF "c_user" \in cookie_store THEN Found(c, "c_user", "intel1")
       ELSE IF ~username THEN FoundThenReturn(c, "no_c_user", "MissingFacebookUsername")
       ELSE IF ~password THEN FoundThenReturn(c, "no_c_user", "MissingFacebookPassword")
       ELSE Found(c, "no_c_user", "fb_get")
    /\ UNCHANGED << api_version, csrftoken, cookie_store, username, password >>
    /\ UNCHANGED << loop_vars, tk, geo, step_vars, fn >>

\* a request is built and handed to client.execute(), lib.rs:108
Send(c, req) ==
    /\ logins[c].pc = req
    /\ logins' = [logins EXCEPT ![c].pc = AwaitingOf(req),
                                ![c].sent = @ \cup {req}]
    /\ UNCHANGED << api_version, csrftoken, cookie_store, username, password >>
    /\ UNCHANGED << loop_vars, tk, geo, step_vars, fn >>

\* call(), lib.rs:109-119: no response, or one with an error status
ReceiveErr(c) ==
    /\ logins[c].pc \in { AwaitingOf(req) : req \in Requests }
    /\ \E e \in {"Transport", "Status"} : Return(c, e)
    /\ UNCHANGED << api_version, csrftoken, cookie_store, username, password >>
    /\ UNCHANGED << loop_vars, tk, geo, step_vars, fn >>

\* lib.rs:150-153 and 215-219: the Facebook page arrives, with cookies
ReceiveFbGet(c) ==
    /\ logins[c].pc = AwaitingOf("fb_get")
    /\ \E cookies \in SUBSET CookieNames :
          cookie_store' = cookie_store \cup cookies
    /\ \/ Return(c, "FirstFacebookResponse")
       \/ Return(c, "LoginForm")
       \/ GoTo(c, "fb_post")
    /\ UNCHANGED << api_version, csrftoken, username, password >>
    /\ UNCHANGED << loop_vars, tk, geo, step_vars, fn >>

\* lib.rs:212-218: the answer to the posted form; the login went through
\* when the response sets c_user
ReceiveFbPost(c) ==
    /\ logins[c].pc = AwaitingOf("fb_post")
    /\ \E cookies \in SUBSET CookieNames :
          /\ cookie_store' = cookie_store \cup cookies
          /\ IF "c_user" \in cookies
               THEN GoTo(c, "intel1")
               ELSE Return(c, "LoginFailed")
    /\ UNCHANGED << api_version, csrftoken, username, password >>
    /\ UNCHANGED << loop_vars, tk, geo, step_vars, fn >>

\* lib.rs:353-366: the Intel page arrives, the Facebook login URL is looked
\* for in it
ReceiveIntel1(c) ==
    /\ logins[c].pc = AwaitingOf("intel1")
    /\ \E cookies \in SUBSET CookieNames :
          cookie_store' = cookie_store \cup cookies
    /\ \/ Return(c, "FirstIntelRequest")
       \/ Return(c, "FacebookUrl")
       \/ GoTo(c, "intel2")
    /\ UNCHANGED << api_version, csrftoken, username, password >>
    /\ UNCHANGED << loop_vars, tk, geo, step_vars, fn >>

\* login() that goes on when csrftoken.set() finds the cell full
ReceiveIntel2NoCheck(c) ==
    /\ logins[c].pc = AwaitingOf("intel2")
    /\ \E cookies \in SUBSET CookieNames :
          /\ cookie_store' = cookie_store \cup cookies
          /\ IF "csrftoken" \in cookies
               THEN csrftoken' = TRUE /\ GoTo(c, "page")
               ELSE UNCHANGED csrftoken /\ Return(c, "CsrfToken")
    /\ UNCHANGED << api_version, username, password >>
    /\ UNCHANGED << loop_vars, tk, geo, step_vars, fn >>

\* lib.rs:378-387: the second Intel response; its csrftoken cookie is put
\* into the cell, which takes a value once
ReceiveIntel2(c) ==
    /\ logins[c].pc = AwaitingOf("intel2")
    /\ \E cookies \in SUBSET CookieNames :
          /\ cookie_store' = cookie_store \cup cookies
          /\ IF "csrftoken" \in cookies /\ ~csrftoken
               THEN csrftoken' = TRUE /\ GoTo(c, "page")
               ELSE UNCHANGED csrftoken /\ Return(c, "CsrfToken")
    /\ UNCHANGED << api_version, username, password >>
    /\ UNCHANGED << loop_vars, tk, geo, step_vars, fn >>

\* lib.rs:388-406: the text of the page is read and the API version found in
\* it is put into the cell, which takes a value once
ReadPage(c) ==
    /\ logins[c].pc = "page"
    /\ \/ Return(c, "SecondIntelRequest") /\ UNCHANGED api_version
       \/ Return(c, "IntelApiVersion") /\ UNCHANGED api_version
       \/ /\ ~api_version
          /\ api_version' = TRUE
          /\ Return(c, "Ok")
    /\ UNCHANGED << csrftoken, cookie_store, username, password >>
    /\ UNCHANGED << loop_vars, tk, geo, step_vars, fn >>

LoginNext ==
    \E c \in Callers :
        \/ LoginEnter(c)
        \/ CheckCsrftoken(c)
        \/ CheckCUser(c)
        \/ \E req \in Requests : Send(c, req)
        \/ ReceiveErr(c)
        \/ ReceiveFbGet(c)
        \/ ReceiveFbPost(c)
        \/ ReceiveIntel1(c)
        \/ ReceiveIntel2(c)
        \/ ReadPage(c)

LoginSpec == LoginInit /\ [][LoginNext]_vars

(* ======================== the four API functions ======================= *)
\* get_entities_around, get_entities_in_range, get_portal_details and
\* get_plexts start with self.login().await? and go on to their endpoint.
\* Here login() is the step-by-step login above, made by the caller of the
\* function; get_entities_in_range goes on with Setup and the loop.
MaxApiTiles == 2

Fns == { "get_entities_around", "get_entities_in_range",
         "get_portal_details", "get_plexts" }

\* the task that calls the function
ApiCaller == 1

\* the error of a request that cannot be built
BuildError(f) ==
    [get_entities_around |-> "EntityRequest",
     get_portal_details |-> "PortalDetailsRequest",
     get_plexts |-> "PlextsRequest"][f]

\* errors of call() and of .json() on the response
CallErrors == { "Transport", "Status", "Deserialize" }

ApiInit ==
    /\ InitCall
    /\ rate_limit = << 1, 1 >>
    /\ fn \in Fns
    /\ tk = NoKey
    /\ geo = NoGeo
    /\ cookie_store \in SUBSET CookieNames
    /\ username \in BOOLEAN
    /\ password \in BOOLEAN
    /\ logins = [c \in Callers |-> Caller("idle", "none", {}, 0)]

\* a step of the login() that the function has called
LoginStep(c) ==
    \/ LoginEnter(c)
    \/ CheckCsrftoken(c)
    \/ CheckCUser(c)
    \/ \E req \in Requests : Send(c, req)
    \/ ReceiveErr(c)
    \/ ReceiveFbGet(c)
    \/ ReceiveFbPost(c)
    \/ ReceiveIntel1(c)
    \/ ReceiveIntel2(c)
    \/ ReadPage(c)

\* self.login().await, lib.rs:419, 467, 568, 603
ApiLogin ==
    /\ pc = "login"
    /\ logins[ApiCaller].pc # "done"
    /\ LoginStep(ApiCaller)

\* a function that goes on whatever login() returned
LoginReturnedIgnored ==
    /\ pc = "login"
    /\ logins[ApiCaller].pc = "done"
    /\ pc' = "setup"
    /\ ev' = NoEvent
    /\ UNCHANGED <<tile_keys, rate_limit, api_version, csrftoken, tiles, tasks,
                   result, served, fails, selects, frees, calls, strays>>
    /\ UNCHANGED aux_vars

\* the ? of self.login().await?
LoginReturned ==
    /\ pc = "login"
    /\ logins[ApiCaller].pc = "done"
    /\ IF logins[ApiCaller].res = "Ok"
         THEN /\ pc' = "setup"
              /\ UNCHANGED result
         ELSE /\ pc' = "returned"
              /\ result' = Err(logins[ApiCaller].res)
    /\ ev' = NoEvent
    /\ UNCHANGED <<tile_keys, rate_limit, api_version, csrftoken, tiles, tasks,
                   served, fails, selects, frees, calls, strays>>
    /\ UNCHANGED aux_vars

\* lib.rs:421-449, 570-594, 605-642: the body is built from api_version
\* (ok_or in get_entities_around, unwrap in the other two), the request from
\* csrftoken, and the request is handed to call()
SendEndpoint ==
    /\ pc = "setup"
    /\ ~InRange
    /\ IF ~api_version
         THEN IF fn = "get_entities_around"
                THEN pc' = "returned" /\ result' = Err("IntelApiVersion") /\ UNCHANGED calls
                ELSE pc' = "unwrap_panic" /\ UNCHANGED <<result, calls>>
         ELSE IF ~csrftoken
                THEN pc' = "returned" /\ result' = Err("CsrfToken") /\ UNCHANGED calls
                ELSE \/ pc' = "returned" /\ result' = Err(BuildError(fn)) /\ UNCHANGED calls
                     \/ pc' = "await" /\ calls' = calls + 1 /\ UNCHANGED result
    /\ ev' = NoEvent
    /\ UNCHANGED <<tile_keys, rate_limit, api_version, csrftoken, tiles, tasks,
                   served, fails, selects, frees, strays>>
    /\ UNCHANGED aux_vars

\* lib.rs:450-453, 595-598, 643-646: call() and .json() on its response
ReceiveEndpoint ==
    /\ pc = "await"
    /\ pc' = "returned"
    /\ \/ \E e \in CallErrors : result' = Err(e)
       \/ \E p \in Payloads : result' = Ok(p)
    /\ ev' = NoEvent
    /\ UNCHANGED <<tile_keys, rate_limit, api_version, csrftoken, tiles, tasks,
                   served, fails, selects, frees, calls, strays>>
    /\ UNCHANGED aux_vars

\* lib.rs:469-479, for a rectangle of at most MaxApiTiles tiles
ApiSetup ==
    /\ Setup
    /\ Cardinality(tile_keys') <= MaxApiTiles

ApiNext ==
    \/ ApiLogin
    \/ LoginReturned
    \/ SendEndpoint
    \/ ReceiveEndpoint
    \/ ApiSetup
    \/ Throttle
    \/ Tick
    \/ Select
    \/ \E b \in Outstanding : \E resp \in Responses(b.ids, {}) : ResolveOk(b, resp)
    \/ \E b \in Outstanding : ResolveErr(b)
    \/ Collect

ApiSpec == ApiInit /\ [][ApiNext]_vars

(* ================================ claims =============================== *)
\* every tile of the tile set has been answered with an entity payload
AllServed == tile_keys # {} /\ \A k \in tile_keys : served[k] \in Payloads

\* the payloads the endpoint answered, one per tile of the tile set
Expected == [p \in Payloads |-> Cardinality({ k \in tile_keys : served[k] = p })]

ReturnedOk == pc = "returned" /\ result.kind = "Ok"

\* C1: under fair scheduling, if every tile of the tile set is eventually
\* answered with an entity payload, get_entities_in_range eventually returns
\* Ok, and whenever it returns Ok the returned payloads are, as a multiset,
\* exactly the payloads answered for the tiles of the initial tile set: one
\* per tile, none missing, none twice.
C1_TerminatesWithEveryPayload ==
    /\ (<>AllServed) => <>(ReturnedOk /\ result.val = Expected)
    /\ [](ReturnedOk => result.val = Expected)

\* C1 witness: a call over several tiles returned Ok after a retry
C1_Witness ==
    /\ ReturnedOk
    /\ Cardinality(tile_keys) > BatchCeiling
    /\ \E k \in tile_keys : fails[k] > 0
    /\ \E j, k \in tile_keys : served[j] # served[k]

\* number of outstanding batch requests the key k is a member of
InFlight(k) ==
    LET with == { b \in Outstanding : k \in b.ids }
    IN  SumOver([b \in with |-> CopiesIn(b, tasks)], with)

\* C2 (as claimed): at every instant every tile is a member of at most one
\* outstanding batch request, whatever the batch responses contain.
C2_AtMostOneOutstanding == \A k \in DOMAIN tiles : InFlight(k) <= 1

\* C3 (as claimed): when a batch resolves with a response that decoded but
\* lacks the entry of a requested key, that tile is Free again.
C3_AbsentKeyIsFreed ==
    ev.op = "resolve_ok" =>
        \A k \in ev.ids \ DOMAIN ev.resp : is_free(tiles[k])

\* C4: a tile the endpoint failed N times (endpoint error for the tile or
\* failure of its whole batch) has gone Busy -> Free exactly N times; once it
\* is answered with entities it has gone Free -> Busy exactly N + 1 times, it
\* is Done with that payload, and the payload is in the returned list.
C4_RetryCycles ==
    \A k \in tile_keys :
        /\ frees[k] = fails[k]
        /\ selects[k] \in {fails[k], fails[k] + 1}
        /\ served[k] \in Payloads =>
              /\ selects[k] = fails[k] + 1
              /\ tiles[k] = Done(served[k])
              /\ ReturnedOk => result.val[served[k]] >= 1

\* C4 witness: a tile failed MaxFail times, then succeeded, and was returned
C4_Witness ==
    /\ ReturnedOk
    /\ \E k \in tile_keys :
          /\ fails[k] = MaxFail
          /\ frees[k] = MaxFail
          /\ selects[k] = MaxFail + 1
          /\ is_done(tiles[k])

\* C5: once the loop has exited (the stream has ended, the futures still
\* running have been drained) every tile is Done: the loop does not exit while
\* a tile is Free or Busy and TileState::unwrap never reaches unreachable!().
\* Holds when the endpoint answers with keys of the request only; an entry
\* under another key can mark Done a tile whose own request is outstanding,
\* the loop then exits, and the failure of that request sets the tile Free.
C5_ExitOnlyWhenAllDone ==
    /\ pc # "unreachable"
    /\ pc \in {"drain", "returned"} => \A k \in DOMAIN tiles : is_done(tiles[k])

\* C6: endpoint errors and failures of a batch call are never returned: once
\* the tile map is built the function returns Ok only, and an Err is one of
\* login() or of the api_version / csrftoken reads, before any request.
C6_LoopErrorsNotReturned ==
    pc = "returned" =>
        IF tile_keys # {}
          THEN result.kind = "Ok"
          ELSE /\ result.kind = "Err"
               /\ result.val \in LoginErrors
               /\ calls = 0
               /\ tiles = << >>

\* C6 witness: a batch call has just failed as a whole and an endpoint error
\* was answered before; the function is still in its loop
C6_Witness ==
    /\ pc = "loop"
    /\ ev.op = "resolve_err"
    /\ \E k \in tile_keys \ ev.ids : fails[k] > 0

\* C7: the function returns only when every tile has been answered with
\* entities; while a tile is Free or Busy the loop keeps ticking, however
\* often the tile has failed (there is no retry ceiling).
C7_NoReturnWithoutSuccess ==
    /\ (pc = "returned" /\ tile_keys # {}) => \A k \in tile_keys : served[k] \in Payloads
    /\ (pc = "loop" /\ \E k \in tile_keys : ~is_done(tiles[k])) => get_counts(tiles)
    /\ pc = "drain" => \A k \in tile_keys : served[k] \in Payloads

\* C7 witness: a tile that has failed MaxFail times is selected once more
C7_Witness ==
    /\ pc = "loop"
    /\ \E k \in tile_keys : fails[k] = MaxFail /\ is_busy(tiles[k]) /\ InFlight(k) = 1

BadRateLimit == rate_limit[1] = 0 \/ rate_limit[2] = 0

\* C8 (as claimed, login allowed to come first): with a zero request count or
\* a zero duration the call ends with an error before the throttle is built:
\* it neither panics nor enters the loop, no tick is admitted and no batch is
\* sent.
C8_MisconfigurationReturned ==
    BadRateLimit =>
        /\ pc \in {"login", "setup", "throttle", "returned"}
        /\ pc = "returned" => result.kind = "Err"
        /\ calls = 0

Is2x2(S) == \E x \in Xs, y \in Ys : S = Range(x, y, x + 1, y + 1)

NoFailure == \A k \in tile_keys : fails[k] = 0

CeilDiv(n, d) == (n + d - 1) \div d

Total(v) == SumOver(v, DOMAIN v)

C10_RoundTrip == tk.step = "parsed" => tk.res = KeyOk(tk.key)

\* C10 witness: a key with a negative x, the smallest y and zoom 255 came back
C10_Witness ==
    /\ tk.step = "parsed"
    /\ tk.res.kind = "Ok"
    /\ \E k \in SampleKeys : k.x < 0 /\ k.zoom = 255 /\ tk.key = k
    /\ Len(tk.text) > 11

\* what the field i of a text is allowed to be
FieldOk(i, tok) == IF i \in {2, 3} THEN tok.i64 ELSE tok.u8

\* the fields among the six that are absent or are not a number of their type
BadFields(f) == { i \in 1 .. 6 : i > Len(f) \/ ~FieldOk(i, f[i]) }

FirstOf(S) == CHOOSE i \in S : \A j \in S : i <= j

\* C11: from_str fails on every text in which one of the six fields is absent
\* or is not a number in the range of its type, and the error names the first
\* such field in the order zoom, x, y, min_level, max_level, health: Missing
\* when the field is absent, Invalid when it is there and does not parse.
C11_FirstBadFieldNamed ==
    (tk.step = "parsed" /\ BadFields(tk.fields) # {}) =>
        LET i == FirstOf(BadFields(tk.fields))
        IN  /\ tk.res.kind = (IF i > Len(tk.fields) THEN "Missing" ELSE "Invalid")
            /\ tk.res.field = FieldNames[i]

\* C11 witness: x does not parse and max_level, health are absent: the error
\* is Invalid("x", _)
C11_Witness ==
    /\ tk.step = "parsed"
    /\ Len(tk.fields) = 4
    /\ BadFields(tk.fields) = {2, 5, 6}
    /\ tk.res.kind = "Invalid"
    /\ tk.res.field = "x"

\* the keys of a sequence, and their (x, y)
KeySet(ks) == { ks[i] : i \in DOMAIN ks }
Cells(ks) == { << ks[i].x, ks[i].y >> : i \in DOMAIN ks }

Ranged == geo.step \in {"range", "square"}
GeoTiles == get_tiles_per_edge(unwrap_or(geo.zoom, DEFAULT_ZOOM))

\* C12: range yields the Cartesian product of the x between the two projected
\* corners and the y between them, each key once, and the same keys when the
\* corners are swapped or exchange their latitudes or their longitudes.
C12_RangeIsProduct ==
    Ranged =>
        LET xa == lng2tile(geo.from[2], GeoTiles)
            xb == lng2tile(geo.to[2], GeoTiles)
            ya == lat2tile(geo.from[1], GeoTiles)
            yb == lat2tile(geo.to[1], GeoTiles)
            r(a, b) == range(a, b, geo.zoom, geo.min_level, geo.max_level, geo.health)
        IN  /\ Cells(geo.keys) = (Min2(xa, xb) .. Max2(xa, xb)) \X (Min2(ya, yb) .. Max2(ya, yb))
            /\ Len(geo.keys) = (Max2(xa, xb) - Min2(xa, xb) + 1) * (Max2(ya, yb) - Min2(ya, yb) + 1)
            /\ Cardinality(KeySet(geo.keys)) = Len(geo.keys)
            /\ KeySet(r(geo.to, geo.from)) = KeySet(geo.keys)
            /\ KeySet(r(<< geo.to[1], geo.from[2] >>, << geo.from[1], geo.to[2] >>)) = KeySet(geo.keys)
            /\ KeySet(r(<< geo.from[1], geo.to[2] >>, << geo.to[1], geo.from[2] >>)) = KeySet(geo.keys)

\* C12 witness: the first corner is south-east of the second, several columns
\* and several rows lie between them
C12_Witness ==
    /\ Ranged
    /\ lng2tile(geo.from[2], GeoTiles) > lng2tile(geo.to[2], GeoTiles) + 1
    /\ lat2tile(geo.from[1], GeoTiles) > lat2tile(geo.to[1], GeoTiles) + 1
    /\ Len(geo.keys) >= 9

\* what an optional argument stands for
Given(o, d) == IF o = None THEN d ELSE o.val

\* C13: range(p, p, ..) yields exactly one key, and it is new(p, ..) with the
\* same arguments: same x and y, the zoom, min_level, max_level and health
\* given, and 15, 0, 8, 100 for those that are None.
C13_DegenerateRange ==
    (Ranged /\ geo.from = geo.to) =>
        /\ geo.keys = << geo.key >>
        /\ geo.key.zoom = Given(geo.zoom, 15)
        /\ geo.key.min_level = Given(geo.min_level, 0)
        /\ geo.key.max_level = Given(geo.max_level, 8)
        /\ geo.key.health = Given(geo.health, 100)

\* C13 witness: the point of the test of tile_key.rs with every argument None
C13_Witness ==
    /\ Ranged
    /\ geo.from = << 12870, 1242 >>
    /\ geo.to = geo.from
    /\ geo.zoom = None
    /\ geo.health = None
    /\ geo.keys = << TileKey(15, 17104, 11440, 0, 8, 100) >>

Between(c, a, b) == Min2(a, b) <= c /\ c <= Max2(a, b)

\* the points inside the rectangle spanned by two corners
Inside(from, to) ==
    { p \in Points : Between(p[1], from[1], to[1]) /\ Between(p[2], from[2], to[2]) }

GeoNew(p) == new(p[1], p[2], geo.zoom, geo.min_level, geo.max_level, geo.health)

\* C14: for every point p inside the rectangle spanned by from and to, the
\* tile new(p, ..) is one of range(from, to, ..): no tile that meets the
\* rectangle is left out, the tiles on its boundary included.
C14_RangeCovers ==
    Ranged => \A p \in Inside(geo.from, geo.to) : GeoNew(p) \in KeySet(geo.keys)

\* C14 witness: a point inside the rectangle whose tile is in another column
\* and another row than the tiles of both corners
C14_Witness ==
    /\ Ranged
    /\ \E p \in Inside(geo.from, geo.to) :
          /\ GeoNew(p).x \notin {GeoNew(geo.from).x, GeoNew(geo.to).x}
          /\ GeoNew(p).y \notin {GeoNew(geo.from).y, GeoNew(geo.to).y}
          /\ GeoNew(p) \in KeySet(geo.keys)

\* C15 (as claimed): square(side) on key k yields the side * side keys
\* (k.x + i, k.y + j) for 0 <= i < side and 0 <= j < side, each with the zoom,
\* min_level, max_level and health of k.
C15_SquareIsBlock ==
    geo.step = "square" =>
        /\ KeySet(geo.sq) = { [geo.key EXCEPT !.x = geo.key.x + i, !.y = geo.key.y + j] :
                                 i \in 0 .. geo.side - 1, j \in 0 .. geo.side - 1 }
        /\ Len(geo.sq) = geo.side * geo.side

\* the zoom the table is read at
Clamped(z) == IF z < 3 THEN 3 ELSE IF z > 15 THEN 15 ELSE z

\* C16: for every zoom 0 .. 255 new and range do not index the table out of
\* bounds, and the x and y they compute are those of zoom 3 for a zoom below 3
\* and those of zoom 15 for a zoom above 15.
C16_ZoomClamped ==
    geo.step # "args" =>
        LET z == unwrap_or(geo.zoom, DEFAULT_ZOOM)
            at == new(geo.from[1], geo.from[2], Some(Clamped(z)), geo.min_level,
                      geo.max_level, geo.health)
            over == range(geo.from, geo.to, Some(Clamped(z)), geo.min_level,
                          geo.max_level, geo.health)
        IN  /\ GeoTiles # 0
            /\ GeoTiles = TILES_PER_EDGE[Clamped(z) + 1]
            /\ geo.key.x = at.x /\ geo.key.y = at.y
            /\ geo.key.zoom = z
            /\ Ranged => /\ Cells(geo.keys) = Cells(over)
                         /\ \A i \in DOMAIN geo.keys : geo.keys[i].zoom = z

\* C16 witness: zoom 255 gives the four tiles of zoom 15, zoom 0 the tile of
\* zoom 3
C16_Witness ==
    /\ Ranged
    /\ \/ /\ geo.zoom = Some(255)
          /\ geo.key.x = 17104
          /\ Len(geo.keys) = 4
       \/ /\ geo.zoom = Some(0)
          /\ geo.key.x = 21
          /\ geo.key.y = 14

\* q lies in the closed interval between the grid coordinates a and b
Within(q, a, b) == Min2(a, b) * q.den <= q.num /\ q.num <= Max2(a, b) * q.den
\* q is above the grid coordinates a and b
Above(q, a) == q.num > a * q.den

\* the anchor corner of key k lies in the rectangle between from and to
AnchorInside(k) ==
    /\ Within(tile2lat(k.y, GeoTiles), geo.from[1], geo.to[1])
    /\ Within(tile2lng(k.x, GeoTiles), geo.from[2], geo.to[2])

\* C17 (as claimed): the anchor corner (tile2lat(y), tile2lng(x)) of every
\* tile of range(from, to, ..) lies inside the closed rectangle [from, to].
C17_AnchorInside ==
    Ranged => \A k \in KeySet(geo.keys) : AnchorInside(k)

\* the north-west corner of the rectangle is the anchor corner of a tile
CornerOnEdge ==
    LET west == Min2(geo.from[2], geo.to[2])
        north == Min2(geo.from[1], geo.to[1])
    IN  /\ tile2lng(lng2tile(west, GeoTiles), GeoTiles).num = west * GeoTiles
        /\ tile2lat(lat2tile(north, GeoTiles), GeoTiles).num = north * GeoTiles

\* C17 (amended): every tile of range(from, to, ..) meets the rectangle: its
\* anchor corner is not east or south of it and the anchor corner of the next
\* tile to the south-east is east and south of the rectangle's north-west
\* corner.  The anchor corners are all inside the rectangle when its
\* north-west corner is itself the anchor corner of a tile.
C17_TileMeetsRectangle ==
    Ranged =>
        /\ \A k \in KeySet(geo.keys) :
              LET west == Min2(geo.from[2], geo.to[2])
                  east == Max2(geo.from[2], geo.to[2])
                  north == Min2(geo.from[1], geo.to[1])
                  south == Max2(geo.from[1], geo.to[1])
              IN  /\ ~Above(tile2lng(k.x, GeoTiles), east)
                  /\ Above(tile2lng(k.x + 1, GeoTiles), west)
                  /\ ~Above(tile2lat(k.y, GeoTiles), south)
                  /\ Above(tile2lat(k.y + 1, GeoTiles), north)
        /\ CornerOnEdge => \A k \in KeySet(geo.keys) : AnchorInside(k)

\* C17 witness: a rectangle of several tiles whose north-west corner is inside
\* a tile; the anchor corner of that tile is outside the rectangle
C17_Witness ==
    /\ Ranged
    /\ Len(geo.keys) >= 4
    /\ ~CornerOnEdge
    /\ \E k \in KeySet(geo.keys) : ~AnchorInside(k)
    /\ \E k \in KeySet(geo.keys) : AnchorInside(k)

\* C18: login() called with api_version already set returns Ok(()) without
\* sending a request and leaves the cookie store, csrftoken and api_version
\* as they are.
C18_LoginIsIdempotent ==
    [][\A c \in Callers :
          (api_version /\ logins[c].pc \in {"idle", "done"} /\ logins'[c] # logins[c]) =>
              /\ logins'[c].pc = "done"
              /\ logins'[c].res = "Ok"
              /\ logins'[c].sent = {}
              /\ cookie_store' = cookie_store
              /\ csrftoken' = csrftoken
              /\ api_version' = api_version]_vars

\* C18 witness: a caller logged in with the four requests, then the other
\* caller's login() returned Ok having sent nothing
C18_Witness ==
    \E c \in Callers, d \in Callers :
        /\ logins[c] = [Caller("done", "Ok", Requests, 1)
                           EXCEPT !.found = {"no_csrftoken", "no_c_user"}]
        /\ logins[d] = Caller("done", "Ok", {}, 1)
        /\ api_version

\* C19 (as claimed): every tile of the tile set is in exactly one of Free,
\* Busy, Done, and Free plus Busy plus Done tiles are as many as the tiles
\* enumerated at the start: no selection and no resolution, whatever the
\* response contains, adds a key to the tile map or removes one.
C19_TileSetFixed ==
    /\ DOMAIN tiles = tile_keys
    /\ \A k \in DOMAIN tiles :
          Cardinality({ t \in {"Free", "Busy", "Done"} : tiles[k].st = t }) = 1
    /\ Cardinality(FreeKeys(tiles)) + Cardinality(BusyKeys(tiles))
          + Cardinality({ k \in DOMAIN tiles : is_done(tiles[k]) })
       = Cardinality(tile_keys)

\* C20 (as claimed): a tile that is Done never changes again: no selection,
\* response or failure makes it Free or Busy or replaces its payload.
C20_DoneIsTerminal ==
    [][\A k \in DOMAIN tiles : is_done(tiles[k]) => tiles'[k] = tiles[k]]_vars

\* the step that has just been taken was the failure of a whole batch call
BatchFailed == ev'.op = "resolve_err" /\ tasks' # tasks

\* C21: when a batch call fails as a whole, every tile of that batch is Free
\* afterwards (and so is picked by the next scan for Free tiles), and every
\* tile outside the batch keeps the state it had.
C21_FailedBatchFreed ==
    [][BatchFailed =>
          /\ \A k \in ev'.ids : k \in FreeKeys(tiles')
          /\ \A k \in DOMAIN tiles \ ev'.ids : tiles'[k] = tiles[k]
          /\ DOMAIN tiles' = DOMAIN tiles]_vars

\* a batch of two has failed while another tile was Busy and another Done
C21_Witness ==
    /\ ev.op = "resolve_err"
    /\ Cardinality(ev.ids) = 2
    /\ ev.ids \subseteq FreeKeys(tiles)
    /\ \E k \in DOMAIN tiles \ ev.ids : is_busy(tiles[k])
    /\ \E k \in DOMAIN tiles \ ev.ids : is_done(tiles[k])

\* C22: when a batch call succeeds at transport level, each tile of the batch
\* answered with an entity payload is Done with that payload and each tile of
\* the batch answered with an error is Free, whatever the other entries of the
\* same answer are.
C22_PerTileOutcome ==
    ev.op = "resolve_ok" =>
        \A k \in ev.ids \cap DOMAIN ev.resp :
            IF ev.resp[k].ok
              THEN tiles[k] = Done(ev.resp[k].val)
              ELSE tiles[k] = Free

\* one answer carried a payload for one tile and an error for another
C22_Witness ==
    /\ ev.op = "resolve_ok"
    /\ \E k, j \in ev.ids \cap DOMAIN ev.resp :
          /\ ev.resp[k].ok /\ tiles[k] = Done(ev.resp[k].val)
          /\ ~ev.resp[j].ok /\ tiles[j] = Free

\* the guard that is alive belongs to exactly one future, and that future is
\* in a scan-and-mark step or in an update-from-result step
HeldByStep(mode) ==
    /\ Cardinality(LockHolders) = 1
    /\ \A t \in LockHolders : t.st = mode /\ CopiesIn(t, tasks) = 1

\* C23 (as claimed): whenever the tile-set lock is held, it is held by a
\* future that is in a scan-and-mark-Busy step or in an update-from-result
\* step, never by one that awaits its network call.
C23_LockOnlyInSelectOrUpdate ==
    tiles_lock # "none" => HeldByStep("select") \/ HeldByStep("update")

\* C23 (amended): the lock is held only during a scan-and-mark-Busy step, an
\* update-from-result step, or the count that get_counts makes for the loop
\* condition; a future whose batch request is in flight never holds it.
C23_LockNeverAcrossCall ==
    /\ tiles_lock \in {"none", "count", "select", "update"}
    /\ tiles_lock \in {"none", "count"} => LockHolders = {}
    /\ tiles_lock = "count" => pc = "loop"
    /\ tiles_lock = "select" => HeldByStep("select")
    /\ tiles_lock = "update" => HeldByStep("update")

\* a batch request is in flight while another future holds the lock to update
\* the map from the answer to its own request
C23_Witness ==
    /\ Outstanding # {}
    /\ tiles_lock = "update"
    /\ HeldByStep("update")

\* the tiles that the step that has just been taken has made Busy
Marked == { k \in DOMAIN tiles : ~is_busy(tiles[k]) /\ is_busy(tiles'[k]) }

\* C24: a step makes at most the batch ceiling of tiles Busy, every tile it
\* makes Busy was Free when the step looked at it, and the step is the
\* critical section of a selection: it starts with the lock held for the
\* selection and ends with the lock released, so observing a tile Free and
\* marking it Busy are not separated by a release of the lock.
C24_SelectionUnderLock ==
    [][/\ Cardinality(Marked) <= BatchCeiling
       /\ \A k \in Marked : is_free(tiles[k])
       /\ Marked # {} => tiles_lock = "select" /\ tiles_lock' = "none"]_vars

\* a selection has taken as many tiles as the ceiling allows and left one Free
C24_Witness ==
    /\ calls = 1
    /\ tiles_lock = "none"
    /\ Cardinality(BusyKeys(tiles)) = BatchCeiling
    /\ Outstanding = {Waiting(BusyKeys(tiles))}
    /\ FreeKeys(tiles) # {}

\* the step that has just been taken was the selection of a get_tiles future
Selected == CopiesIn(Started, tasks') < CopiesIn(Started, tasks)

\* the tiles that the step has moved from Free to Busy
Moved == { k \in DOMAIN tiles : is_free(tiles[k]) /\ is_busy(tiles'[k]) }

\* C25: a selection step that moved no tile issues no call; one that moved
\* tiles from Free to Busy issues exactly one call, and the keys of that call
\* are exactly the tiles it moved.
C25_OneCallForTheSelection ==
    [][Selected =>
          IF Moved = {}
            THEN /\ calls' = calls
                 /\ tasks' = tasks (-) One(Started)
            ELSE /\ calls' = calls + 1
                 /\ tasks' = (tasks (-) One(Started)) (+) One(Waiting(Moved))]_vars

\* two selections have each sent one request, for the tiles each had marked
C25_Witness ==
    /\ calls = 2
    /\ Cardinality(Outstanding) = 2
    /\ UNION { b.ids : b \in Outstanding } = BusyKeys(tiles)
    /\ \A b \in Outstanding : Cardinality(b.ids) = BatchCeiling

\* C26: at every point of an execution of get_entities_in_range the batch
\* calls issued so far are at most as many as the items the rate limiter has
\* let through so far: every call follows an admission of its own.
C26_CallsWithinTicks == calls <= ticks

\* every admitted tick so far has been used for a call
C26_Witness ==
    /\ calls = 2
    /\ ticks = 2
    /\ Cardinality(Outstanding) = 2

\* C27: the loop does not wait for a batch to resolve before the next tick:
\* while requests are in flight and tiles are left to fetch, the next item
\* of the throttled stream is taken and a new get_tiles future is started;
\* the futures alive at once are limited by nothing in the loop itself.
C27_TickWhileOutstanding ==
    (pc = "loop" /\ Outstanding # {} /\ BagCardinality(tasks) < MaxTasks)
        => ENABLED Tick

\* two batch requests are in flight at the same time
C27_Witness ==
    /\ pc = "loop"
    /\ SumOver([b \in Outstanding |-> CopiesIn(b, tasks)], Outstanding) >= 2
    /\ calls = 2
    /\ \A k \in DOMAIN served : served[k] = 0

Facebook == { "fb_get", "fb_post" }

\* the requests a call of login() may have sent, given what its lookups of
\* the two cookies found
SentAsFound(sent, found) ==
    /\ sent \cap Facebook # {} => found = {"no_csrftoken", "no_c_user"}
    /\ "csrftoken" \in found => found = {"csrftoken"} /\ sent \subseteq {"intel2"}
    /\ "c_user" \in found =>
          /\ found = {"no_csrftoken", "c_user"}
          /\ sent \cap Facebook = {}
    /\ "no_csrftoken" \in found /\ "intel2" \in sent => "intel1" \in sent
    /\ "no_c_user" \in found /\ "intel1" \in sent => Facebook \subseteq sent
    /\ "fb_post" \in sent => "fb_get" \in sent

\* the requests of a call of login() that went through to the end
SentWhenOk(sent, found) ==
    /\ "csrftoken" \in found => sent = {"intel2"}
    /\ "c_user" \in found => sent = {"intel1", "intel2"}
    /\ "no_c_user" \in found => sent = Requests
    /\ found = {} => sent = {}

\* C28: a call of login() sends the Facebook requests only if it found
\* neither the csrftoken cookie nor the c_user cookie in the cookie store;
\* if it found csrftoken it sends the one request to the Intel page and
\* nothing else; if it found c_user and no csrftoken it sends no Facebook
\* request and asks for the Intel page, for the Facebook login URL, before
\* the second Intel request.
C28_RequestsFollowCookies ==
    \A c \in Callers :
        /\ SentAsFound(logins[c].sent, logins[c].found)
        /\ logins[c].res = "Ok" => SentWhenOk(logins[c].sent, logins[c].found)

\* one call found only c_user and has sent the two Intel requests, the other
\* found csrftoken and has sent the one request
C28_Witness ==
    \E c \in Callers, d \in Callers :
        /\ logins[c].found = {"no_csrftoken", "c_user"}
        /\ logins[c].sent = {"intel1", "intel2"}
        /\ logins[d].found = {"csrftoken"}
        /\ logins[d].sent = {"intel2"}
        /\ logins[d].res = "Ok"

\* what holds of the two cells in a state: api_version is set only after
\* csrftoken, and a call that returned Ok leaves both set
CellsInOrder ==
    /\ api_version => csrftoken
    /\ \A c \in Callers : logins[c].res = "Ok" => api_version /\ csrftoken

\* C30: in every state api_version set implies csrftoken set; a cell that is
\* set stays set, and a call of login() gets past a set() only by filling an
\* empty cell, so each cell is written at most once; after a call of login()
\* has returned Ok both cells are set, so api_version.get().unwrap() has a
\* value to return and the lookup of csrftoken does not fail.
C30_CellsWrittenOnceInOrder ==
    [][/\ CellsInOrder
       /\ CellsInOrder'
       /\ csrftoken => csrftoken'
       /\ api_version => api_version'
       /\ \A c \in Callers :
             /\ (logins[c].pc = AwaitingOf("intel2") /\ logins'[c].pc = "page")
                   => ~csrftoken /\ csrftoken'
             /\ (logins[c].pc = "page" /\ logins'[c].res = "Ok")
                   => ~api_version /\ api_version']_vars

\* one call filled both cells and returned Ok; the other call, which had
\* started before, came to csrftoken.set() later and returned the error
C30_Witness ==
    \E c \in Callers, d \in Callers :
        /\ logins[c].res = "Ok" /\ "intel2" \in logins[c].sent
        /\ logins[d].res = "CsrfToken" /\ "intel2" \in logins[d].sent
        /\ logins[c].n = 1 /\ logins[d].n = 1
        /\ api_version /\ csrftoken

\* the login() of the function that is being called, and what it returned
LoginOfCall == logins[ApiCaller]
LoginFailed == LoginOfCall.pc = "done" /\ LoginOfCall.res # "Ok"

\* C29: each of the four functions has sent an endpoint request only if the
\* login() it called has returned Ok; when that login() failed the function
\* has sent no endpoint request and, once it has returned, its result is the
\* error that login() returned.
C29_EndpointOnlyAfterLogin ==
    /\ (calls > 0 \/ pc = "await" \/ Outstanding # {})
          => LoginOfCall.pc = "done" /\ LoginOfCall.res = "Ok"
    /\ LoginFailed => calls = 0 /\ pc \in {"login", "returned"}
    /\ (LoginFailed /\ pc = "returned")
          => result.kind = "Err" /\ result.val = LoginOfCall.res

\* get_portal_details has sent its request after a login() that went through
\* the Facebook login
C29_Witness ==
    /\ fn = "get_portal_details"
    /\ pc = "await"
    /\ calls = 1
    /\ LoginOfCall.res = "Ok"
    /\ LoginOfCall.sent = Requests

\* a login() has stored csrftoken and has failed before it stored
\* api_version: one cell is full, the other empty, and no call is between the
\* two set()
FailedAfterCsrftoken ==
    /\ csrftoken
    /\ ~api_version
    /\ \A c \in Callers : logins[c].pc # "page"

\* C31: once a login() has failed after storing csrftoken, csrftoken stays
\* set and api_version stays empty; every login() that then receives the
\* response carrying the csrftoken returns an error at csrftoken.set()
\* (Error::CsrfToken, or the error of call() if the response did not come),
\* and no call of login() returns Ok any more.
C31_NoLoginAfterHalfLogin ==
    [][FailedAfterCsrftoken =>
          /\ FailedAfterCsrftoken'
          /\ \A c \in Callers :
                /\ logins'[c].res # "Ok"
                /\ (logins[c].pc = AwaitingOf("intel2") /\ logins'[c] # logins[c])
                      => /\ logins'[c].pc = "done"
                         /\ logins'[c].res \in {"CsrfToken", "Transport", "Status"}
                /\ (logins[c].pc = AwaitingOf("intel2") /\ logins'[c] # logins[c]
                       /\ "csrftoken" \in cookie_store' \ cookie_store)
                      => logins'[c].res = "CsrfToken"]_vars

\* the caller whose first login() stored csrftoken and failed has called
\* login() again, has sent the second Intel request and got Error::CsrfToken
C31_Witness ==
    \E c \in Callers :
        /\ FailedAfterCsrftoken
        /\ logins[c].n = 2
        /\ logins[c].res = "CsrfToken"
        /\ "intel2" \in logins[c].sent
        /\ \A d \in Callers \ {c} : logins[d].n = 0

\* the call of c has passed the api_version check of lib.rs:322 (it went on
\* to look for the cookies) and has returned
PassedCheck(c) == logins[c].found # {} /\ logins[c].pc = "done"

\* two calls that passed the api_version check have returned, c with Ok
OneOkOneOther(c, d) ==
    /\ c # d
    /\ PassedCheck(c)
    /\ PassedCheck(d)
    /\ logins[c].res = "Ok"

AfterCsrftoken == { "SecondIntelRequest", "IntelApiVersion" }

NoCookieFound(c) ==
    /\ logins[c].pc = "check_c_user"
    /\ "c_user" \notin cookie_store
    /\ logins'[c] # logins[c]

\* C33: a call of login() that has found neither the csrftoken cookie nor
\* the c_user cookie returns Error::MissingFacebookUsername when there is no
\* username, and Error::MissingFacebookPassword when there is a username and
\* no password, in the same step: it has sent no request, and the cookie
\* store and both cells are as they were.
C33_MissingCredentials ==
    [][\A c \in Callers :
          (NoCookieFound(c) /\ ~(username /\ password)) =>
              /\ logins'[c].pc = "done"
              /\ logins'[c].res = IF ~username THEN "MissingFacebookUsername"
                                  ELSE "MissingFacebookPassword"
              /\ logins'[c].sent = {}
              /\ cookie_store' = cookie_store
              /\ csrftoken' = csrftoken
              /\ api_version' = api_version]_vars

\* a username and no password: the call has returned the error, nothing sent
C33_Witness ==
    \E c \in Callers :
        /\ username /\ ~password
        /\ logins[c].res = "MissingFacebookPassword"
        /\ logins[c].found = {"no_csrftoken", "no_c_user"}
        /\ logins[c].sent = {}
        /\ cookie_store = {}
        /\ ~csrftoken /\ ~api_version

\* the places of a get_tiles future at which it holds the guard of the tile
\* map
WithTiles == { "select", "update", "update_err" }

\* every guard that is alive belongs to a future at a place where the code
\* holds it, and to no other: guards of the tile map to futures that select
\* or update, guards of the cookie store to futures in get_cookies or at the
\* end of call; a future that waits for the cookie store ("wait"), for the
\* response ("sent") or for its body ("body") has none
GuardsOwned ==
    /\ CountAt(WithTiles) = IF tiles_lock \in {"select", "update"} THEN 1 ELSE 0
    /\ tiles_lock = "select" => CountAt({"select"}) = 1
    /\ tiles_lock = "count" => pc = "loop"
    /\ cookie_lock.r = CountAt({"cookies"})
    /\ CountAt({"store"}) = IF cookie_lock.w THEN 1 ELSE 0
    /\ cookie_lock.w => cookie_lock.r = 0

\* whoever holds a guard can do the step that drops it without taking
\* another lock
HolderCanRelease ==
    /\ tiles_lock = "count" => ENABLED LockedCount
    /\ tiles_lock = "select" => ENABLED LockedSelect
    /\ tiles_lock = "update" =>
          ENABLED (\/ \E b \in At({"update"}) :
                        \E resp \in Responses(b.ids, {}) : LockedResolveOk(b, resp)
                   \/ \E b \in At({"update_err"}) : LockedRelease(b))
    /\ cookie_lock.r > 0 => ENABLED (\E b \in At({"cookies"}) : ReleaseRead(b))
    /\ cookie_lock.w => ENABLED (\E b \in At({"store"}) : ReleaseWrite(b))

\* C34: a future that holds the guard of the tile map is not at a place
\* where it waits for or holds a guard of the cookie store; a future that
\* awaits the response to its request, or the body of it, holds no guard of
\* either lock; and every guard that is alive can be dropped by its holder
\* without another lock, so the futures cannot deadlock on the two locks.
C34_NoLockHeldAcrossLockOrCall ==
    /\ GuardsOwned
    /\ HolderCanRelease

\* one future holds the guard of the tile map for its update while another
\* holds the write guard of the cookie store and the loop goes on
C34_Witness ==
    /\ tiles_lock = "update"
    /\ cookie_lock.w
    /\ CountAt({"update"}) = 1
    /\ CountAt({"store"}) = 1

\* the step that has just been taken was the scan of a get_tiles future,
\* from the guard taken to the guard dropped
Scanned == tiles_lock = "select" /\ tiles_lock' = "none"

\* C35: a selection step that finds no Free tile sends no request, starts
\* no batch and leaves the state of every tile as it was; a selection step
\* that finds a Free tile sends one request for a batch that is not empty,
\* made of tiles that were Free.
C35_EmptySelectionIsSilent ==
    [][Scanned =>
          IF FreeKeys(tiles) = {}
            THEN /\ tiles' = tiles
                 /\ calls' = calls
                 /\ At({"wait"})' = At({"wait"})
                 /\ tasks' = tasks (-) One(Selecting)
            ELSE /\ calls' = calls + 1
                 /\ \E ids \in SUBSET FreeKeys(tiles) :
                       /\ ids # {}
                       /\ tasks' = (tasks (-) One(Selecting)) (+) One(Waiting(ids))]_vars

\* two futures were started; the first took every tile, the second found
\* none Free and ended: one request is in flight and nothing else is alive
C35_Witness ==
    /\ pc = "loop"
    /\ ticks = 2
    /\ calls = 1
    /\ tiles_lock = "none"
    /\ FreeKeys(tiles) = {}
    /\ tasks = One(Waiting(DOMAIN tiles))
    /\ \A k \in DOMAIN tiles : is_busy(tiles[k]) /\ fails[k] = 0

====
